---- MODULE Spec2Model ----
(***************************************************************************)
(* Railway QR tracker: the scan ledger of backend/server.js over its two   *)
(* stores (the MySQL pool `db` and global.inMemoryStorage), and the stored *)
(* procedures of database/migrations/001_initial_schema.sql.               *)
(*                                                                         *)
(* Every `await db.execute(...)` of a handler is one step: the statement   *)
(* runs at the database, autocommitted, and the handler continues to its   *)
(* next await.  The synchronous in-memory branch of a handler is one step. *)
(***************************************************************************)
EXTENDS Integers, FiniteSets, Sequences, TLC

\* ---------------------------------------------------------------- bounds
MaxScans == 2      \* scan requests per behaviour
MaxCalls == 2      \* stored-procedure calls per behaviour
MaxClock == 2      \* last value of the wall clock
MaxSeq   == 4      \* length of the request sequence replayed on both stores
MaxGens  == 2      \* generate requests per behaviour
MaxTaps  == 2      \* processScan calls of the mobile app per behaviour

\* ------------------------------------------------------------- constants
NULL == "NULL"
NoTime == 0 - 1    \* a NULL / null timestamp

Qr1 == "QR_ERC_DEMO_001_KMRL_2025"
Qr2 == "QR_RPD_DEMO_002_RINL_2025"
QrUnknown == "QR_ERC_TEST_SCAN_001"
Id1 == "ERC-DEMO-001"
Id2 == "RPD-DEMO-002"

Statuses == {"Active", "Inactive", "Replaced", "Damaged"}
Severities == {"Low", "Medium", "High", "Critical"}
ReportTypes == {"Damage", "Quality", "Missing", "Defective", "Wear", "Corrosion"}

\* what a client can put in the qrCode field of POST /api/qr/scan
ScanInputs == {Qr1, Qr2, QrUnknown, ""}

ScanIds == 1..MaxScans
CallIds == 1..MaxCalls
GenIds == 1..MaxGens
TapIds == 1..MaxTaps

VARIABLES
    boot,            \* "init" before initDatabase() has run, then "running"
    db,              \* TRUE when the module variable `db` holds a pool
    dbUp,            \* TRUE when the MySQL server answers statements
    now,             \* wall clock (Date.now() / CURRENT_TIMESTAMP)
    memInit,         \* TRUE when global.inMemoryStorage exists
    memComponents,   \* inMemoryStorage.components : qrCode -> component
    memScanHistory,  \* inMemoryStorage.scanHistory : set of scanData
    dbComponents,    \* table components
    dbScanHistory,   \* table scan_history
    dbQualityReports,\* table quality_reports
    dbAuditLog,      \* table audit_log
    rowLock,         \* component_id -> the call holding the row's write lock
    scans,           \* the POST /api/qr/scan requests
    calls,           \* the stored-procedure calls
    replay,          \* the requests replayed on both stores, with both outcomes
    memOrder,        \* insertion order of the keys of inMemoryStorage.components
    gens,            \* the POST /api/qr/generate requests
    reply,           \* the last response of a decode, fetch or bulk-generate
    trip,            \* the last qr_code generated and parsed back
    bulk,            \* the POST /api/qr/bulk-generate request
    list,            \* the GET /api/components request
    dailyStats,      \* table daily_stats : stat_date -> total_scans
    provider         \* the mobile app's ScanProvider and its processScan calls

vars == <<boot, db, dbUp, now, memInit, memComponents, memScanHistory,
          dbComponents, dbScanHistory, dbQualityReports, dbAuditLog,
          rowLock, scans, calls, replay, memOrder, gens, reply, trip, bulk,
          list, dailyStats, provider>>

\* the catalogue requests and the parser round trip
reqVars == <<gens, reply, trip, bulk>>

\* the list request, the daily aggregate and the mobile client
sideVars == <<list, dailyStats, provider>>

storeVars == <<memInit, memComponents, memScanHistory, dbComponents,
               dbScanHistory, dbQualityReports, dbAuditLog, rowLock>>

\* ------------------------------------------------------------ seed data
\* rows of the components table inserted by the migration, with scan_count
\* and last_scanned recomputed from the seeded scan_history
SeedDbComponents ==
    { [component_id |-> Id1, qr_code |-> Qr1, status |-> "Active",
       scan_count |-> 1, last_scanned |-> 0],
      [component_id |-> Id2, qr_code |-> Qr2, status |-> "Active",
       scan_count |-> 1, last_scanned |-> 0] }

SeedDbScanHistory ==
    { [id |-> 901, component_id |-> Id1, qr_code |-> Qr1,
       scan_timestamp |-> 0, error_message |-> NULL],
      [id |-> 902, component_id |-> Id2, qr_code |-> Qr2,
       scan_timestamp |-> 0, error_message |-> NULL] }

\* initInMemoryData(): the two sample components, stamped with the boot time
initInMemoryData(t) ==
    [q \in {Qr1, Qr2} |->
        IF q = Qr1
        THEN [componentId |-> Id1, qrCode |-> Qr1, status |-> "Active",
              scanCount |-> 5, lastScanned |-> t]
        ELSE [componentId |-> Id2, qrCode |-> Qr2, status |-> "Active",
              scanCount |-> 3, lastScanned |-> t]]

EmptyMap == [q \in {} |-> NULL]

IdleScan == [pc |-> "idle", qrCode |-> "", componentId |-> NULL,
             timestamp |-> NoTime, status |-> 0]

\* a POST /api/qr/generate request that has not arrived
IdleGen == [pc |-> "idle", input |-> NULL, timestamp |-> << >>,
            componentId |-> NULL, qrCode |-> NULL, status |-> 0]

NoReply == [op |-> NULL, arg |-> NULL, status |-> 0, components |-> {}]

NoTrip == [input |-> NULL, qrCode |-> NULL, info |-> NULL]

\* a POST /api/qr/bulk-generate request that has not arrived
IdleBulk == [pc |-> "idle", count |-> 0, i |-> 0, component_type |-> << >>,
             manufacturer |-> << >>, components |-> << >>, status |-> 0]

\* a GET /api/components request that has not arrived
IdleList == [pc |-> "idle", component_type |-> NULL, status |-> NULL,
             page |-> 1, limit |-> 50, totalCount |-> 0, components |-> {},
             code |-> 0]

\* CURDATE() / DATE(scan_timestamp): the calendar day of a clock value
DayLength == 2
CurDate(t) == t \div DayLength

\* INSERT INTO daily_stats (stat_date, total_scans, ...) VALUES (CURDATE(), 5,
\* ...) next to the five seeded scan_history rows: the seed row counts the
\* seeded scans
SeedDailyStats ==
    [d \in {CurDate(0)} |-> Cardinality(SeedDbScanHistory)]

\* a processScan call that has not been made
IdleTap == [pc |-> "idle", qrCode |-> "", component |-> NULL, branch |-> NULL,
            result |-> NULL]

\* the ScanProvider after construction, the device's saved scan history and
\* the HTTP requests the app has sent
IdleProvider ==
    [isProcessing |-> FALSE, errorMessage |-> NULL, scanHistory |-> << >>,
     saved |-> << >>, requests |-> 0, calls |-> [c \in TapIds |-> IdleTap]]

IdleCall == [proc |-> NULL, pc |-> "idle", component_id |-> NULL,
             report_type |-> NULL, severity |-> NULL, new_status |-> NULL,
             old_status |-> NULL, priority |-> 0, outcome |-> NULL,
             timestamp |-> NoTime, stat_date |-> NoTime]

Init ==
    /\ boot = "init"
    /\ db = FALSE
    /\ dbUp \in BOOLEAN
    /\ now = 1
    /\ memInit = FALSE
    /\ memComponents = EmptyMap
    /\ memScanHistory = {}
    /\ dbComponents = SeedDbComponents
    /\ dbScanHistory = SeedDbScanHistory
    /\ dbQualityReports = {}
    /\ dbAuditLog = {}
    /\ rowLock = EmptyMap
    /\ scans = [s \in ScanIds |-> IdleScan]
    /\ calls = [c \in CallIds |-> IdleCall]
    /\ replay = << >>
    /\ memOrder = << >>
    /\ gens = [g \in GenIds |-> IdleGen]
    /\ reply = NoReply
    /\ trip = NoTrip
    /\ bulk = IdleBulk
    /\ list = IdleList
    /\ dailyStats = SeedDailyStats
    /\ provider = IdleProvider

\* ------------------------------------------------------------ environment
Tick ==
    /\ now < MaxClock
    /\ now' = now + 1
    /\ UNCHANGED <<boot, sideVars, db, dbUp, storeVars, scans, calls, replay, memOrder, reqVars>>

\* the MySQL server stops answering
DbOutage ==
    /\ dbUp
    /\ dbUp' = FALSE
    /\ UNCHANGED <<boot, sideVars, db, now, storeVars, scans, calls, replay, memOrder, reqVars>>

\* the MySQL server answers again
DbRestore ==
    /\ ~dbUp
    /\ dbUp' = TRUE
    /\ UNCHANGED <<boot, sideVars, db, now, storeVars, scans, calls, replay, memOrder, reqVars>>

\* ---------------------------------------------------------------- startup
\* initDatabase(): `db` is assigned by createPool before the connection is
\* tested; the catch block builds the in-memory storage and leaves `db` as
\* it is.  createPool itself either returns a pool or throws.
initDatabase ==
    /\ boot = "init"
    /\ boot' = "running"
    /\ \E poolThrows \in BOOLEAN :
         IF poolThrows
         THEN /\ db' = FALSE
              /\ memInit' = TRUE
              /\ memComponents' = initInMemoryData(now)
              /\ memOrder' = <<Qr1, Qr2>>
         ELSE /\ db' = TRUE
              /\ IF dbUp
                 THEN UNCHANGED <<memInit, memComponents, memOrder>>
                 ELSE /\ memInit' = TRUE
                      /\ memComponents' = initInMemoryData(now)
                      /\ memOrder' = <<Qr1, Qr2>>
    /\ UNCHANGED <<dbUp, now, memScanHistory, dbComponents, dbScanHistory,
                   dbQualityReports, dbAuditLog, rowLock, scans, calls, replay,
                   reqVars, sideVars>>

\* ------------------------------------------------- store primitives (SQL)
\* SELECT component_id FROM components WHERE qr_code = ? LIMIT 1
SelectComponentIdByQr(comps, qr) ==
    { c.component_id : c \in { x \in comps : x.qr_code = qr } }

\* SET scan_count = scan_count + 1 (IncrementLost: the bump is lost)
IncrementLost(n) == n
Increment(n) == n + 1

\* UPDATE components SET scan_count = scan_count + 1,
\*        last_scanned = CURRENT_TIMESTAMP WHERE component_id = ?
\* (updateScanCountWholeRow: the row is written back whole, with the status
\* it had when the component was created)
updateScanCountWholeRow(comps, cid, t) ==
    { IF c.component_id = cid
      THEN [c EXCEPT !.scan_count = Increment(@), !.last_scanned = t,
                     !.status = "Active"]
      ELSE c : c \in comps }
updateScanCount(comps, cid, t) ==
    { IF c.component_id = cid
      THEN [c EXCEPT !.scan_count = Increment(@), !.last_scanned = t]
      ELSE c : c \in comps }

\* INSERT INTO scan_history (id, component_id, qr_code, ...): scan_timestamp
\* takes its default CURRENT_TIMESTAMP, error_message its default NULL
insertScanHistory(hist, id, cid, qr, t) ==
    hist \cup { [id |-> id, component_id |-> cid, qr_code |-> qr,
                 scan_timestamp |-> t, error_message |-> NULL] }

\* the in-memory branch of POST /api/qr/scan
MemScanHistorySet(hist, id, qr, t) ==
    hist \cup { [id |-> id, qrCode |-> qr, timestamp |-> t] }

MemScanComponents(comps, qr, t) ==
    IF qr \in DOMAIN comps
    THEN [comps EXCEPT ![qr] = [@ EXCEPT !.scanCount = Increment(@),
                                         !.lastScanned = t]]
    ELSE comps

\* res.status(200).json({success: true, scanId, ...}): the handler answers
\* 200 whether or not the qr_code was found (ScanResponseStatusNotFound: a
\* handler that answers 404 for an unknown code)
ScanResponseStatusNotFound(found) == IF found THEN 200 ELSE 404
ScanResponseStatus(found) == 200

\* Joi.string().required(): a missing or empty qrCode is rejected
ScanValidates(qr) == qr # ""

\* ------------------------------------------------- POST /api/qr/scan
\* request slots are taken in order (they are interchangeable)
NextIdleScan(s) ==
    /\ scans[s].pc = "idle"
    /\ \A t \in ScanIds : t < s => scans[t].pc # "idle"

\* the handler up to its first await: validation, scanData, and the whole
\* in-memory branch when `db` is not set
ScanReceive(s, qr) ==
    /\ boot = "running"
    /\ NextIdleScan(s)
    /\ IF ~ScanValidates(qr)
       THEN /\ scans' = [scans EXCEPT ![s] = [@ EXCEPT !.pc = "done",
                                   !.qrCode = qr, !.status = 400]]
            /\ UNCHANGED <<memScanHistory, memComponents>>
       ELSE IF db
       THEN /\ scans' = [scans EXCEPT ![s] = [@ EXCEPT !.pc = "select",
                                   !.qrCode = qr, !.timestamp = now]]
            /\ UNCHANGED <<memScanHistory, memComponents>>
       ELSE /\ scans' = [scans EXCEPT ![s] = [@ EXCEPT !.pc = "done",
                                   !.qrCode = qr, !.timestamp = now,
                                   !.status = ScanResponseStatus(
                                       memInit /\ qr \in DOMAIN memComponents)]]
            /\ IF memInit
               THEN /\ memScanHistory' = MemScanHistorySet(memScanHistory, s, qr, now)
                    /\ memComponents' = MemScanComponents(memComponents, qr, now)
               ELSE UNCHANGED <<memScanHistory, memComponents>>
    /\ UNCHANGED <<boot, sideVars, db, dbUp, now, memInit, dbComponents, dbScanHistory,
                   dbQualityReports, dbAuditLog, rowLock, calls, replay, memOrder, reqVars>>

\* a statement that the server cannot answer rejects; the handler's catch
\* block answers 500
ScanFail(s) ==
    scans' = [scans EXCEPT ![s] = [@ EXCEPT !.pc = "done", !.status = 500]]

ScanSelect(s) ==
    /\ scans[s].pc = "select"
    /\ IF dbUp
       THEN LET ids == SelectComponentIdByQr(dbComponents, scans[s].qrCode) IN
            IF ids # {}
            THEN scans' = [scans EXCEPT ![s] = [@ EXCEPT !.pc = "update",
                               !.componentId = CHOOSE i \in ids : TRUE]]
            ELSE scans' = [scans EXCEPT ![s] = [@ EXCEPT !.pc = "done",
                               !.status = ScanResponseStatus(FALSE)]]
       ELSE ScanFail(s)
    /\ UNCHANGED <<boot, sideVars, db, dbUp, now, storeVars, calls, replay, memOrder, reqVars>>

ScanUpdate(s) ==
    /\ scans[s].pc = "update"
    /\ IF dbUp
       THEN /\ scans[s].componentId \notin DOMAIN rowLock
            /\ dbComponents' = updateScanCount(dbComponents, scans[s].componentId, now)
            /\ scans' = [scans EXCEPT ![s] = [@ EXCEPT !.pc = "insert"]]
       ELSE /\ ScanFail(s)
            /\ UNCHANGED dbComponents
    /\ UNCHANGED <<boot, sideVars, db, dbUp, now, memInit, memComponents, memScanHistory,
                   dbScanHistory, dbQualityReports, dbAuditLog, rowLock,
                   calls, replay, memOrder, reqVars>>

ScanInsert(s) ==
    /\ scans[s].pc = "insert"
    /\ IF dbUp
       THEN /\ dbScanHistory' = insertScanHistory(dbScanHistory, s,
                                     scans[s].componentId, scans[s].qrCode, now)
            /\ scans' = [scans EXCEPT ![s] = [@ EXCEPT !.pc = "done",
                                       !.status = ScanResponseStatus(TRUE)]]
       ELSE /\ ScanFail(s)
            /\ UNCHANGED dbScanHistory
    /\ UNCHANGED <<boot, sideVars, db, dbUp, now, memInit, memComponents, memScanHistory,
                   dbComponents, dbQualityReports, dbAuditLog, rowLock,
                   calls, replay, memOrder, reqVars>>

ScanReceiveAny == \E s \in ScanIds, qr \in ScanInputs : ScanReceive(s, qr)
ScanSelectAny == \E s \in ScanIds : ScanSelect(s)
ScanUpdateAny == \E s \in ScanIds : ScanUpdate(s)
ScanInsertAny == \E s \in ScanIds : ScanInsert(s)

NextScan ==
    \/ initDatabase
    \/ Tick
    \/ DbOutage
    \/ DbRestore
    \/ ScanReceiveAny
    \/ ScanSelectAny
    \/ ScanUpdateAny
    \/ ScanInsertAny

SpecScan == Init /\ [][NextScan]_vars

\* ------------------------------------------------ views used by the claims
KnownQrs == {Qr1, Qr2}

ScansOf(q) == { s \in ScanIds : scans[s].pc # "idle" /\ scans[s].qrCode = q }
ScansDone(q, code) ==
    { s \in ScansOf(q) : scans[s].pc = "done" /\ scans[s].status = code }
ScansInFlight(q) == { s \in ScansOf(q) : scans[s].pc # "done" }
ScansBumped(q) == { s \in ScansOf(q) : scans[s].pc = "insert" }

DbRow(q) == CHOOSE c \in dbComponents : c.qr_code = q
SeedDbRow(q) == CHOOSE c \in SeedDbComponents : c.qr_code = q

SetMax(S) == CHOOSE m \in S : \A x \in S : x <= m

\* C1: N successful scans of one component, in any interleaving of their
\* store steps, raise its scan_count by exactly N, in the durable path and in
\* the in-memory path (requests still between their UPDATE and their INSERT
\* have already been counted)
C1_NoLostIncrement ==
    \A q \in KnownQrs :
        (boot = "running" /\ ScansDone(q, 500) = {})
        => IF db
           THEN DbRow(q).scan_count = SeedDbRow(q).scan_count
                    + Cardinality(ScansDone(q, 200)) + Cardinality(ScansBumped(q))
           ELSE memComponents[q].scanCount = initInMemoryData(0)[q].scanCount
                    + Cardinality(ScansDone(q, 200))

\* two scans of one component are both between UPDATE and INSERT
C1_Witness ==
    /\ db
    /\ Cardinality(ScansBumped(Qr1)) = 2
    /\ DbRow(Qr1).scan_count = SeedDbRow(Qr1).scan_count + 2

\* two scans of one component have been served from the in-memory store
C1_WitnessMem ==
    /\ ~db
    /\ Cardinality(ScansDone(Qr1, 200)) = 2

\* C2: every scan request that passed validation and was answered has
\* exactly one ScanEvent in the ledger of the store that served it, whether
\* or not its qr_code resolved
C2_EveryScanRecorded ==
    \A s \in ScanIds :
        (scans[s].pc = "done" /\ scans[s].status = 200)
        => IF db
           THEN Cardinality({ e \in dbScanHistory : e.id = s }) = 1
           ELSE Cardinality({ e \in memScanHistory : e.id = s }) = 1

\* C3: once startup has fallen back to the in-memory storage, no request
\* ends with a store failure
C3_FallbackServes ==
    \A s \in ScanIds :
        (memInit /\ scans[s].pc = "done") => scans[s].status # 500

\* C4: whenever no scan is between its statements, every component's
\* scan_count equals the number of its ScanEvents (count bump and event
\* insert happen together or not at all)
C4_CountAndEventTogether ==
    (\A s \in ScanIds : scans[s].pc \in {"idle", "done"})
    => \A c \in dbComponents :
          c.scan_count =
              Cardinality({ e \in dbScanHistory : e.component_id = c.component_id })

\* C6: after the scans of a component have completed successfully, its
\* last_scanned is the timestamp of its latest ScanEvent
C6_LastScannedIsLatest ==
    \A q \in KnownQrs :
        (boot = "running" /\ ScansInFlight(q) = {} /\ ScansDone(q, 500) = {}
            /\ ScansDone(q, 200) # {})
        => IF db
           THEN DbRow(q).last_scanned =
                  SetMax({ e.scan_timestamp :
                      e \in { x \in dbScanHistory : x.qr_code = q } })
           ELSE memComponents[q].lastScanned =
                  SetMax({ e.timestamp :
                      e \in { x \in memScanHistory : x.qrCode = q } })

\* a qr_code that matches no component of the store that serves the request
Unresolved(q) ==
    IF db THEN SelectComponentIdByQr(dbComponents, q) = {}
          ELSE q \notin DOMAIN memComponents

Finishing(s) == scans[s].pc # "done" /\ scans'[s].pc = "done"

ComponentOfRow(row) ==
    [componentId |-> row.component_id, qrCode |-> row.qr_code,
     status |-> row.status, scanCount |-> row.scan_count,
     lastScanned |-> row.last_scanned]

EquivDbComponents ==
    { [component_id |-> Id1, qr_code |-> Qr1, status |-> "Active",
       scan_count |-> 5, last_scanned |-> 1],
      [component_id |-> Id2, qr_code |-> Qr2, status |-> "Active",
       scan_count |-> 3, last_scanned |-> 1] }

InitEquiv ==
    /\ boot = "running"
    /\ db = TRUE
    /\ dbUp = TRUE
    /\ now = 1
    /\ memInit = TRUE
    /\ memComponents = initInMemoryData(1)
    /\ memScanHistory = {}
    /\ dbComponents = EquivDbComponents
    /\ dbScanHistory = {}
    /\ dbQualityReports = {}
    /\ dbAuditLog = {}
    /\ rowLock = EmptyMap
    /\ scans = [s \in ScanIds |-> IdleScan]
    /\ calls = [c \in CallIds |-> IdleCall]
    /\ replay = << >>
    /\ memOrder = <<Qr1, Qr2>>
    /\ gens = [g \in GenIds |-> IdleGen]
    /\ reply = NoReply
    /\ trip = NoTrip
    /\ bulk = IdleBulk
    /\ list = IdleList
    /\ dailyStats = SeedDailyStats
    /\ provider = IdleProvider

\* POST /api/qr/scan run to completion on the durable store
DurableScan(comps, hist, id, qr, t) ==
    IF ~ScanValidates(qr)
    THEN [components |-> comps, history |-> hist, status |-> 400]
    ELSE LET ids == SelectComponentIdByQr(comps, qr) IN
         IF ids = {}
         THEN [components |-> comps, history |-> hist,
               status |-> ScanResponseStatus(FALSE)]
         ELSE LET cid == CHOOSE i \in ids : TRUE IN
              [components |-> updateScanCount(comps, cid, t),
               history |-> insertScanHistory(hist, id, cid, qr, t),
               status |-> ScanResponseStatus(TRUE)]

\* POST /api/qr/scan run to completion on the in-memory store
FallbackScan(comps, hist, id, qr, t) ==
    IF ~ScanValidates(qr)
    THEN [components |-> comps, history |-> hist, status |-> 400]
    ELSE [components |-> MemScanComponents(comps, qr, t),
          history |-> MemScanHistorySet(hist, id, qr, t),
          status |-> ScanResponseStatus(qr \in DOMAIN comps)]

ReplayScan(qr) ==
    /\ Len(replay) < MaxSeq
    /\ LET id == Len(replay) + 1
           d == DurableScan(dbComponents, dbScanHistory, id, qr, now)
           f == FallbackScan(memComponents, memScanHistory, id, qr, now)
       IN /\ dbComponents' = d.components
          /\ dbScanHistory' = d.history
          /\ memComponents' = f.components
          /\ memScanHistory' = f.history
          /\ replay' = Append(replay, [qrCode |-> qr, durable |-> d.status,
                                       fallback |-> f.status])
    /\ UNCHANGED <<boot, sideVars, db, dbUp, now, memInit, dbQualityReports, dbAuditLog,
                   rowLock, scans, calls, memOrder, reqVars>>

ReplayScanAny == \E qr \in ScanInputs : ReplayScan(qr)

NextEquiv ==
    \/ Tick
    \/ ReplayScanAny

SpecEquiv == InitEquiv /\ [][NextEquiv]_vars

\* C5: the same sequence of scan requests gives the same responses, the same
\* scan_count per component and the same recorded ScanEvents on both stores
C5_SameObservableBehaviour ==
    /\ \A i \in 1..Len(replay) : replay[i].durable = replay[i].fallback
    /\ \A c \in dbComponents :
          ComponentOfRow(c) = memComponents[c.qr_code]
    /\ { <<e.id, e.qr_code, e.scan_timestamp>> : e \in dbScanHistory }
         = { <<e.id, e.qrCode, e.timestamp>> : e \in memScanHistory }

\* --------------------------------------------------- stored procedures
\* A call runs its statements one at a time inside START TRANSACTION ...
\* COMMIT.  Its writes stay private to the call until COMMIT; an UPDATE takes
\* the row's write lock and holds it until COMMIT or ROLLBACK.  A statement
\* the server cannot run raises SQLEXCEPTION: the EXIT HANDLER rolls back and
\* resignals.

\* the component ids and report types the concurrent callers use
CallComponentIds == {Id1, Id2}
CallReportTypes == {"Damage", "Quality"}

\* GenerateQualityReport: "Auto-calculate priority based on severity and type"
BasePriority(severity) ==
    CASE severity = "Critical" -> 1
      [] severity = "High" -> 2
      [] severity = "Medium" -> 3
      [] severity = "Low" -> 4
      [] OTHER -> 3

Greatest(a, b) == IF a >= b THEN a ELSE b

\* AdjustPriorityNoFloor: the promotion without GREATEST(..., 1)

AdjustPriorityNoFloor(report_type, v_priority) ==
    IF report_type \in {"Missing", "Damage"} THEN v_priority - 1 ELSE v_priority
AdjustPriority(report_type, v_priority) ==
    IF report_type \in {"Missing", "Damage"}
    THEN Greatest(v_priority - 1, 1)
    ELSE v_priority

Priority(report_type, severity) ==
    AdjustPriority(report_type, BasePriority(severity))

\* IF p_severity = 'Critical' THEN UPDATE components SET status = 'Damaged'
\* (ForcedStatusFromActiveOnly: the update restricted to Active components)
ForcedStatusFromActiveOnly(severity, current) ==
    IF severity = "Critical" /\ current = "Active" THEN "Damaged" ELSE current
ForcedStatus(severity, current) ==
    IF severity = "Critical" THEN "Damaged" ELSE current

ComponentExists(comps, cid) == \E c \in comps : c.component_id = cid

StatusOf(comps, cid) ==
    IF ComponentExists(comps, cid)
    THEN (CHOOSE c \in comps : c.component_id = cid).status
    ELSE NULL

\* (SetStatusEveryRow: the UPDATE without its WHERE clause)
SetStatusEveryRow(comps, cid, st) ==
    { [c EXCEPT !.status = st] : c \in comps }
SetStatus(comps, cid, st) ==
    { IF c.component_id = cid THEN [c EXCEPT !.status = st] ELSE c : c \in comps }

QualityReportRow(id, cid, report_type, severity, priority) ==
    [report_id |-> id, component_id |-> cid, report_type |-> report_type,
     severity |-> severity, priority |-> priority,
     resolution_status |-> "Open"]

AuditRow(id, cid, old_status, new_status, changed_by) ==
    [log_id |-> id, table_name |-> "components", record_id |-> cid,
     action |-> "UPDATE", old_values |-> old_status,
     new_values |-> new_status, changed_by |-> changed_by]

NextIdleCall(c) ==
    /\ calls[c].pc = "idle"
    /\ \A d \in CallIds : d < c => calls[d].pc # "idle"

Unlock(locks, c) ==
    [k \in { x \in DOMAIN locks : locks[x] # c } |-> locks[k]]

Lock(locks, cid, c) ==
    [k \in DOMAIN locks \cup {cid} |-> IF k = cid THEN c ELSE locks[k]]

LockFree(cid, c) == IF cid \in DOMAIN rowLock THEN rowLock[cid] = c ELSE TRUE

\* EXIT HANDLER FOR SQLEXCEPTION: ROLLBACK; RESIGNAL
CallRollback(c) ==
    /\ calls' = [calls EXCEPT ![c] = [IdleCall EXCEPT !.proc = calls[c].proc,
                     !.pc = "done", !.outcome = "error"]]
    /\ rowLock' = Unlock(rowLock, c)

CallReturn(c) ==
    calls' = [calls EXCEPT ![c] = [IdleCall EXCEPT !.proc = calls[c].proc,
                  !.pc = "done", !.outcome = "ok"]]

\* GenerateQualityReport up to and including INSERT INTO quality_reports
\* (ReportInsertAutocommit: the INSERT is committed on its own, outside the
\* transaction)
ReportInsertAutocommit(c, cid, report_type, severity) ==
    /\ NextIdleCall(c)
    /\ IF dbUp /\ ComponentExists(dbComponents, cid)
       THEN /\ calls' = [calls EXCEPT ![c] = [@ EXCEPT
                     !.proc = "GenerateQualityReport",
                     !.pc = IF severity = "Critical" THEN "update" ELSE "commit",
                     !.component_id = cid, !.report_type = report_type,
                     !.severity = severity,
                     !.priority = Priority(report_type, severity)]]
            /\ dbQualityReports' = dbQualityReports \cup
                  { QualityReportRow(c, cid, report_type, severity,
                                     Priority(report_type, severity)) }
       ELSE /\ calls' = [calls EXCEPT ![c] = [IdleCall EXCEPT
                     !.proc = "GenerateQualityReport",
                     !.pc = "done", !.outcome = "error"]]
            /\ UNCHANGED dbQualityReports
    /\ UNCHANGED <<boot, sideVars, db, dbUp, now, memInit, memComponents,
                   memScanHistory, dbComponents, dbScanHistory, dbAuditLog,
                   rowLock, scans, replay, memOrder, reqVars>>
ReportInsert(c, cid, report_type, severity) ==
    /\ NextIdleCall(c)
    /\ IF dbUp /\ ComponentExists(dbComponents, cid)
       THEN /\ calls' = [calls EXCEPT ![c] = [@ EXCEPT
                     !.proc = "GenerateQualityReport",
                     !.pc = IF severity = "Critical" THEN "update" ELSE "commit",
                     !.component_id = cid, !.report_type = report_type,
                     !.severity = severity,
                     !.priority = Priority(report_type, severity)]]
            /\ UNCHANGED rowLock
       ELSE /\ calls' = [calls EXCEPT ![c] = [IdleCall EXCEPT
                     !.proc = "GenerateQualityReport",
                     !.pc = "done", !.outcome = "error"]]
            /\ UNCHANGED rowLock
    /\ UNCHANGED <<boot, sideVars, db, dbUp, now, memInit, memComponents, memScanHistory,
                   dbComponents, dbScanHistory, dbQualityReports, dbAuditLog,
                   scans, replay, memOrder, reqVars>>

\* UPDATE components SET status = 'Damaged' WHERE component_id = p_component_id
ReportUpdate(c) ==
    /\ calls[c].proc = "GenerateQualityReport"
    /\ calls[c].pc = "update"
    /\ IF dbUp
       THEN /\ LockFree(calls[c].component_id, c)
            /\ rowLock' = Lock(rowLock, calls[c].component_id, c)
            /\ calls' = [calls EXCEPT ![c] = [@ EXCEPT !.pc = "commit"]]
       ELSE CallRollback(c)
    /\ UNCHANGED <<boot, sideVars, db, dbUp, now, memInit, memComponents, memScanHistory,
                   dbComponents, dbScanHistory, dbQualityReports, dbAuditLog,
                   scans, replay, memOrder, reqVars>>

ReportCommit(c) ==
    /\ calls[c].proc = "GenerateQualityReport"
    /\ calls[c].pc = "commit"
    /\ IF dbUp
       THEN /\ dbQualityReports' = dbQualityReports \cup
                  { QualityReportRow(c, calls[c].component_id,
                        calls[c].report_type, calls[c].severity,
                        calls[c].priority) }
            /\ dbComponents' = SetStatus(dbComponents, calls[c].component_id,
                  ForcedStatus(calls[c].severity,
                               StatusOf(dbComponents, calls[c].component_id)))
            /\ rowLock' = Unlock(rowLock, c)
            /\ CallReturn(c)
       ELSE /\ CallRollback(c)
            /\ UNCHANGED <<dbQualityReports, dbComponents>>
    /\ UNCHANGED <<boot, sideVars, db, dbUp, now, memInit, memComponents, memScanHistory,
                   dbScanHistory, dbAuditLog, scans, replay, memOrder, reqVars>>

\* UpdateComponentLifecycle up to and including SELECT status INTO v_old_status
LifecycleSelect(c, cid, new_status) ==
    /\ NextIdleCall(c)
    /\ IF dbUp
       THEN calls' = [calls EXCEPT ![c] = [@ EXCEPT
                     !.proc = "UpdateComponentLifecycle", !.pc = "update",
                     !.component_id = cid, !.new_status = new_status,
                     !.old_status = StatusOf(dbComponents, cid)]]
       ELSE calls' = [calls EXCEPT ![c] = [IdleCall EXCEPT
                     !.proc = "UpdateComponentLifecycle",
                     !.pc = "done", !.outcome = "error"]]
    /\ UNCHANGED <<boot, sideVars, db, dbUp, now, storeVars, scans, replay, memOrder, reqVars>>

\* UPDATE components SET status = p_new_status WHERE component_id = ...
LifecycleUpdate(c) ==
    /\ calls[c].proc = "UpdateComponentLifecycle"
    /\ calls[c].pc = "update"
    /\ IF dbUp
       THEN /\ LockFree(calls[c].component_id, c)
            /\ rowLock' = Lock(rowLock, calls[c].component_id, c)
            /\ calls' = [calls EXCEPT ![c] = [@ EXCEPT !.pc = "audit"]]
       ELSE CallRollback(c)
    /\ UNCHANGED <<boot, sideVars, db, dbUp, now, memInit, memComponents, memScanHistory,
                   dbComponents, dbScanHistory, dbQualityReports, dbAuditLog,
                   scans, replay, memOrder, reqVars>>

\* INSERT INTO audit_log (... old_values, new_values, changed_by)
LifecycleAudit(c) ==
    /\ calls[c].proc = "UpdateComponentLifecycle"
    /\ calls[c].pc = "audit"
    /\ IF dbUp
       THEN /\ calls' = [calls EXCEPT ![c] = [@ EXCEPT !.pc = "commit"]]
            /\ UNCHANGED rowLock
       ELSE CallRollback(c)
    /\ UNCHANGED <<boot, sideVars, db, dbUp, now, memInit, memComponents, memScanHistory,
                   dbComponents, dbScanHistory, dbQualityReports, dbAuditLog,
                   scans, replay, memOrder, reqVars>>

LifecycleCommit(c) ==
    /\ calls[c].proc = "UpdateComponentLifecycle"
    /\ calls[c].pc = "commit"
    /\ IF dbUp
       THEN /\ dbComponents' = SetStatus(dbComponents, calls[c].component_id,
                                         calls[c].new_status)
            /\ dbAuditLog' = dbAuditLog \cup
                  { AuditRow(c, calls[c].component_id, calls[c].old_status,
                             calls[c].new_status, "admin") }
            /\ rowLock' = Unlock(rowLock, c)
            /\ CallReturn(c)
       ELSE /\ CallRollback(c)
            /\ UNCHANGED <<dbComponents, dbAuditLog>>
    /\ UNCHANGED <<boot, sideVars, db, dbUp, now, memInit, memComponents, memScanHistory,
                   dbScanHistory, dbQualityReports, scans, replay, memOrder, reqVars>>

ReportInsertAny ==
    \E c \in CallIds, cid \in CallComponentIds, t \in CallReportTypes,
       sev \in Severities : ReportInsert(c, cid, t, sev)
ReportUpdateAny == \E c \in CallIds : ReportUpdate(c)
ReportCommitAny == \E c \in CallIds : ReportCommit(c)
LifecycleSelectAny ==
    \E c \in CallIds, cid \in CallComponentIds, st \in Statuses :
        LifecycleSelect(c, cid, st)
LifecycleUpdateAny == \E c \in CallIds : LifecycleUpdate(c)
LifecycleAuditAny == \E c \in CallIds : LifecycleAudit(c)
LifecycleCommitAny == \E c \in CallIds : LifecycleCommit(c)

NextReport ==
    \/ DbOutage
    \/ DbRestore
    \/ ReportInsertAny
    \/ ReportUpdateAny
    \/ ReportCommitAny
    \/ LifecycleSelectAny
    \/ LifecycleUpdateAny
    \/ LifecycleAuditAny
    \/ LifecycleCommitAny

SpecReport == Init /\ [][NextReport]_vars

\* C7: a Critical quality report that completes on an existing component
\* leaves that component Damaged, whatever its status was
C7_CriticalForcesDamaged ==
    [][ \A c \in CallIds :
          ( /\ calls[c].proc = "GenerateQualityReport"
            /\ calls[c].severity = "Critical"
            /\ calls[c].pc # "done"
            /\ calls'[c].pc = "done"
            /\ calls'[c].outcome = "ok" )
          => /\ ComponentExists(dbComponents', calls[c].component_id)
             /\ StatusOf(dbComponents', calls[c].component_id) = "Damaged" ]_vars

\* a component that an administrative update had set to Replaced is Damaged
\* after a Critical report
C7_Witness ==
    \E cid \in CallComponentIds :
        /\ \E a \in dbAuditLog : a.record_id = cid /\ a.new_values = "Replaced"
        /\ \E r \in dbQualityReports :
              r.component_id = cid /\ r.severity = "Critical"
        /\ StatusOf(dbComponents, cid) = "Damaged"

\* C8: every change of a component's status adds an audit entry with the
\* prior and the new value, and every quality-report filing adds an audit
\* entry
C8_StatusChangesAudited ==
    [][ /\ \A c \in dbComponents : \A d \in dbComponents' :
              (c.component_id = d.component_id /\ c.status # d.status)
              => \E a \in dbAuditLog' \ dbAuditLog :
                    /\ a.record_id = c.component_id
                    /\ a.old_values = c.status
                    /\ a.new_values = d.status
        /\ (dbQualityReports' # dbQualityReports => dbAuditLog' # dbAuditLog)
      ]_vars

\* ------------------------------------ one caller filing reports in turn
\* GenerateQualityReport run to completion
GenerateQualityReport(comps, reports, id, cid, report_type, severity) ==
    IF ComponentExists(comps, cid)
    THEN [components |-> SetStatus(comps, cid,
                             ForcedStatus(severity, StatusOf(comps, cid))),
          reports |-> reports \cup
              { QualityReportRow(id, cid, report_type, severity,
                                 Priority(report_type, severity)) },
          outcome |-> "ok"]
    ELSE [components |-> comps, reports |-> reports, outcome |-> "error"]

FileReport(c, cid, report_type, severity) ==
    /\ NextIdleCall(c)
    /\ dbUp
    /\ LET r == GenerateQualityReport(dbComponents, dbQualityReports, c, cid,
                                      report_type, severity)
       IN /\ dbComponents' = r.components
          /\ dbQualityReports' = r.reports
          /\ calls' = [calls EXCEPT ![c] = [IdleCall EXCEPT
                          !.proc = "GenerateQualityReport", !.pc = "done",
                          !.outcome = r.outcome]]
    /\ UNCHANGED <<boot, sideVars, db, dbUp, now, memInit, memComponents, memScanHistory,
                   dbScanHistory, dbAuditLog, rowLock, scans, replay, memOrder, reqVars>>

FileReportAny ==
    \E c \in CallIds, cid \in CallComponentIds, t \in ReportTypes,
       sev \in Severities : FileReport(c, cid, t, sev)

NextPriority ==
    \/ DbOutage
    \/ DbRestore
    \/ FileReportAny

SpecPriority == Init /\ [][NextPriority]_vars

\* the derivation of section 4.3: base 1/2/3/4 for Critical/High/Medium/Low,
\* one level up for Missing and Damage, never above level 1
ReferenceBase ==
    [sev \in Severities |->
        IF sev = "Critical" THEN 1
        ELSE IF sev = "High" THEN 2
        ELSE IF sev = "Medium" THEN 3 ELSE 4]

ReferencePriority(report_type, severity) ==
    LET base == ReferenceBase[severity] IN
    IF report_type \in {"Missing", "Damage"} /\ base > 1 THEN base - 1 ELSE base

\* C9: the priority stored with a quality report is the reference derivation
\* of its (report_type, severity); it lies in 1..4 and Missing+Low gives 3
C9_PriorityDerivation ==
    \A r \in dbQualityReports :
        /\ r.priority = ReferencePriority(r.report_type, r.severity)
        /\ r.priority \in 1..4
        /\ (r.report_type = "Missing" /\ r.severity = "Low" => r.priority = 3)

\* a Missing/Low report stored with priority 3 and a Damage/Critical report
\* stored with priority 1
C9_Witness ==
    /\ \E r \in dbQualityReports :
          r.report_type = "Missing" /\ r.severity = "Low" /\ r.priority = 3
    /\ \E r \in dbQualityReports :
          r.report_type = "Damage" /\ r.severity = "Critical" /\ r.priority = 1

\* ------------------------------------------------------ qr_code strings
\* A JavaScript string is a sequence of one-character strings; Str(s) is the
\* same text as one value, the form in which the stores keep it.
RECURSIVE Str(_)
Str(s) == IF s = << >> THEN "" ELSE Head(s) \o Str(Tail(s))

Upper == {"A", "B", "C", "D", "E", "F", "G", "H", "I", "J", "K", "L", "M",
          "N", "O", "P", "Q", "R", "S", "T", "U", "V", "W", "X", "Y", "Z"}
Digit == {"0", "1", "2", "3", "4", "5", "6", "7", "8", "9"}
Whitespace == {" "}

\* Number.prototype.toString(36) followed by toUpperCase()
Base36Digits ==
    <<"0", "1", "2", "3", "4", "5", "6", "7", "8", "9", "A", "B", "C", "D",
      "E", "F", "G", "H", "I", "J", "K", "L", "M", "N", "O", "P", "Q", "R",
      "S", "T", "U", "V", "W", "X", "Y", "Z">>

RECURSIVE Base36(_)
Base36(n) ==
    IF n < Len(Base36Digits)
    THEN <<Base36Digits[n + 1]>>
    ELSE Base36(n \div Len(Base36Digits))
             \o <<Base36Digits[(n % Len(Base36Digits)) + 1]>>

\* Date.now().toString(36).toUpperCase()
Timestamp(t) == Base36(t)

\* manufacturer.replace(/\s+/g, '_'): every run of whitespace becomes one '_'
RECURSIVE ReplaceWhitespace(_)
ReplaceWhitespace(s) ==
    IF s = << >> THEN << >>
    ELSE IF Head(s) \in Whitespace
    THEN IF Len(s) > 1 /\ s[2] \in Whitespace
         THEN ReplaceWhitespace(Tail(s))
         ELSE <<"_">> \o ReplaceWhitespace(Tail(s))
    ELSE <<Head(s)>> \o ReplaceWhitespace(Tail(s))

\* parts[3].replace(/_/g, ' ')
RECURSIVE ReplaceUnderscore(_)
ReplaceUnderscore(s) ==
    IF s = << >> THEN << >>
    ELSE <<IF Head(s) = "_" THEN " " ELSE Head(s)>> \o ReplaceUnderscore(Tail(s))

\* qrCode.split('_')
RECURSIVE Split(_)
Split(s) ==
    IF \A i \in 1..Len(s) : s[i] # "_"
    THEN <<s>>
    ELSE LET i == CHOOSE k \in 1..Len(s) :
                      s[k] = "_" /\ \A m \in 1..(k - 1) : s[m] # "_"
         IN <<SubSeq(s, 1, i - 1)>> \o Split(SubSeq(s, i + 1, Len(s)))

\* `QR_${component_type}_${timestamp}_${manufacturer.replace(...)}_2025_${batch_number}`
generateComponentQRCode(component_type, timestamp, manufacturer, batch_number) ==
    <<"Q", "R", "_">> \o component_type \o <<"_">> \o timestamp \o <<"_">>
        \o ReplaceWhitespace(manufacturer) \o <<"_", "2", "0", "2", "5", "_">>
        \o batch_number

\* `${componentType}-${timestamp}-2025`
generateComponentId(componentType, timestamp) ==
    componentType \o <<"-">> \o timestamp \o <<"-", "2", "0", "2", "5">>

AllIn(s, from, to, chars) == \A i \in from..to : s[i] \in chars

\* /^QR_[A-Z]{3}_[A-Z0-9]+_[A-Z0-9_]+_2025_[A-Z0-9_]+$/.test(qrCode)
MatchesRailwayPattern(s) ==
    /\ Len(s) >= 7
    /\ SubSeq(s, 1, 3) = <<"Q", "R", "_">>
    /\ AllIn(s, 4, 6, Upper)
    /\ s[7] = "_"
    /\ \E j \in 8..Len(s), k \in 8..Len(s) :
          /\ j + 2 <= k
          /\ k + 7 <= Len(s)
          /\ AllIn(s, 8, j, Upper \cup Digit)
          /\ s[j + 1] = "_"
          /\ AllIn(s, j + 2, k, Upper \cup Digit \cup {"_"})
          /\ SubSeq(s, k + 1, k + 6) = <<"_", "2", "0", "2", "5", "_">>
          /\ AllIn(s, k + 7, Len(s), Upper \cup Digit \cup {"_"})

\* validateQRCode: a non-empty string of 10 to 100 characters is valid,
\* whether or not it matches the railway pattern
validateQRCode(qrCode) ==
    IF qrCode = << >> \/ Len(qrCode) < 10 \/ Len(qrCode) > 100
    THEN [isValid |-> FALSE, matchesRailwayPattern |-> FALSE,
          componentType |-> NULL]
    ELSE [isValid |-> TRUE,
          matchesRailwayPattern |-> MatchesRailwayPattern(qrCode),
          componentType |-> IF MatchesRailwayPattern(qrCode)
                            THEN Str(Split(qrCode)[2]) ELSE NULL]

Part(parts, i) == IF i + 1 <= Len(parts) THEN parts[i + 1] ELSE << >>

\* extractComponentInfo: the fields are the pieces of qrCode.split('_')
extractComponentInfo(qrCode) ==
    LET validation == validateQRCode(qrCode)
        parts == Split(qrCode)
    IN IF ~validation.isValid
       THEN [error |-> TRUE]
       ELSE IF ~validation.matchesRailwayPattern
       THEN [qrCode |-> Str(qrCode), componentType |-> "UNKNOWN",
             isRailwayComponent |-> FALSE]
       ELSE [qrCode |-> Str(qrCode),
             componentType |-> Str(Part(parts, 1)),
             timestamp |-> Str(Part(parts, 2)),
             manufacturer |-> Str(ReplaceUnderscore(Part(parts, 3))),
             year |-> Str(Part(parts, 4)),
             batchNumber |-> Str(Part(parts, 5)),
             isRailwayComponent |-> TRUE]

\* ------------------------------------------- generation inputs of the parser
ComponentTypes == {<<"E", "R", "C">>, <<"R", "P", "D">>, <<"L", "N", "R">>}

\* one word, two words, two words two spaces apart, mixed case, with a digit,
\* with an underscore
TripManufacturers ==
    { <<"K">>, <<"K", " ", "R">>, <<"K", " ", " ", "R">>, <<"K", "r">>,
      <<"K", "9">>, <<"K", "_", "R">> }

\* plain, with an underscore, lower case, digits only
TripBatches == { <<"B", "1">>, <<"B", "_", "1">>, <<"b">>, <<"7">> }

\* generateComponentQRCode of an input at the current time, parsed back
RoundTrip(component_type, manufacturer, batch_number) ==
    /\ LET qr == generateComponentQRCode(component_type, Timestamp(now),
                                         manufacturer, batch_number)
       IN trip' = [input |-> [component_type |-> Str(component_type),
                              manufacturer |-> Str(manufacturer),
                              batch_number |-> Str(batch_number)],
                   qrCode |-> Str(qr),
                   info |-> extractComponentInfo(qr)]
    /\ UNCHANGED <<boot, sideVars, db, dbUp, now, storeVars, scans, calls, replay,
                   memOrder, gens, reply, bulk>>

RoundTripAny ==
    \E ct \in ComponentTypes, m \in TripManufacturers, b \in TripBatches :
        RoundTrip(ct, m, b)

NextRoundTrip ==
    \/ Tick
    \/ RoundTripAny

SpecRoundTrip == Init /\ [][NextRoundTrip]_vars

\* C12: parsing the qr_code generated for a valid input recovers the
\* component_type and the batch_number of that input
C12_RoundTrip ==
    trip.qrCode # NULL
    => /\ "componentType" \in DOMAIN trip.info
       /\ trip.info.componentType = trip.input.component_type
       /\ "batchNumber" \in DOMAIN trip.info
       /\ trip.info.batchNumber = trip.input.batch_number

\* ------------------------------------------------ the component catalogue
\* a field the request body does not have
Missing == <<NULL>>

\* Joi: component_type one of the three, manufacturer and batch_number
\* non-empty strings (GenerateValidatesTypeOnly: only the type is checked)
GenerateValidatesTypeOnly(input) == input.component_type \in ComponentTypes
GenerateValidates(input) ==
    /\ input.component_type \in ComponentTypes
    /\ input.manufacturer \notin {Missing, << >>}
    /\ input.batch_number \notin {Missing, << >>}

\* request bodies of POST /api/qr/generate: two valid ones of one type that
\* differ in the manufacturer, and three invalid ones
GenerateInputs ==
    { [component_type |-> <<"E", "R", "C">>, manufacturer |-> <<"K">>,
       batch_number |-> <<"B">>],
      [component_type |-> <<"E", "R", "C">>, manufacturer |-> <<"K", " ", "R">>,
       batch_number |-> <<"B">>],
      [component_type |-> <<"X", "Y", "Z">>, manufacturer |-> <<"K">>,
       batch_number |-> <<"B">>],
      [component_type |-> <<"E", "R", "C">>, manufacturer |-> << >>,
       batch_number |-> <<"B">>],
      [component_type |-> <<"E", "R", "C">>, manufacturer |-> <<"K">>,
       batch_number |-> Missing] }

\* the component record built by the generate handler
NewComponent(componentId, qrCode, input) ==
    [componentId |-> componentId, qrCode |-> qrCode,
     componentType |-> Str(input.component_type),
     manufacturer |-> Str(input.manufacturer),
     batchNumber |-> Str(input.batch_number),
     status |-> "Active", scanCount |-> 0, lastScanned |-> NoTime]

\* INSERT INTO components (...): status is given, scan_count and last_scanned
\* take their defaults 0 and NULL
RowOfComponent(c) ==
    [component_id |-> c.componentId, qr_code |-> c.qrCode,
     component_type |-> c.componentType, manufacturer |-> c.manufacturer,
     batch_number |-> c.batchNumber, status |-> "Active",
     scan_count |-> 0, last_scanned |-> NoTime]

\* component_id is the PRIMARY KEY and qr_code is UNIQUE: ER_DUP_ENTRY
DuplicateEntry(comps, row) ==
    \E c \in comps : c.component_id = row.component_id \/ c.qr_code = row.qr_code

\* Map.prototype.set: a new key goes to the end of the iteration order, an
\* existing key keeps its place and has its value replaced
MapSet(comps, key, value) ==
    [k \in DOMAIN comps \cup {key} |-> IF k = key THEN value ELSE comps[k]]

MapSetOrder(order, comps, key) ==
    IF key \in DOMAIN comps THEN order ELSE Append(order, key)

NextIdleGen(g) ==
    /\ gens[g].pc = "idle"
    /\ \A h \in GenIds : h < g => gens[h].pc # "idle"

\* POST /api/qr/generate up to `await QRCode.toDataURL(...)`: validation,
\* Date.now(), componentId and qrCodeData
GenerateReceive(g, input) ==
    /\ boot = "running"
    /\ NextIdleGen(g)
    /\ IF ~GenerateValidates(input)
       THEN gens' = [gens EXCEPT ![g] = [@ EXCEPT !.pc = "done",
                          !.input = input, !.status = 400]]
       ELSE gens' = [gens EXCEPT ![g] = [@ EXCEPT !.pc = "store",
                          !.input = input, !.timestamp = Timestamp(now),
                          !.componentId = Str(generateComponentId(
                              input.component_type, Timestamp(now))),
                          !.qrCode = Str(generateComponentQRCode(
                              input.component_type, Timestamp(now),
                              input.manufacturer, input.batch_number))]]
    /\ UNCHANGED <<boot, sideVars, db, dbUp, now, storeVars, scans, calls, replay,
                   memOrder, reply, trip, bulk>>

\* POST /api/qr/generate after the image is ready: the INSERT, or the
\* in-memory set, and the response.  A statement error (the server does not
\* answer, or ER_DUP_ENTRY) is caught by the handler's own catch block, which
\* answers 500; the error middleware is never reached.
GenerateStore(g) ==
    /\ gens[g].pc = "store"
    /\ LET component == NewComponent(gens[g].componentId, gens[g].qrCode,
                                     gens[g].input)
       IN IF db
          THEN /\ IF dbUp /\ ~DuplicateEntry(dbComponents, RowOfComponent(component))
                  THEN /\ dbComponents' = dbComponents \cup {RowOfComponent(component)}
                       /\ gens' = [gens EXCEPT ![g] = [@ EXCEPT !.pc = "done",
                                                       !.status = 200]]
                  ELSE /\ UNCHANGED dbComponents
                       /\ gens' = [gens EXCEPT ![g] = [@ EXCEPT !.pc = "done",
                                          !.status = 500]]
               /\ UNCHANGED <<memComponents, memOrder>>
          ELSE /\ IF memInit
                  THEN /\ memComponents' = MapSet(memComponents, gens[g].qrCode,
                                                  component)
                       /\ memOrder' = MapSetOrder(memOrder, memComponents,
                                                  gens[g].qrCode)
                  ELSE UNCHANGED <<memComponents, memOrder>>
               /\ gens' = [gens EXCEPT ![g] = [@ EXCEPT !.pc = "done",
                                               !.status = 200]]
               /\ UNCHANGED dbComponents
    /\ UNCHANGED <<boot, sideVars, db, dbUp, now, memInit, memScanHistory, dbScanHistory,
                   dbQualityReports, dbAuditLog, rowLock, scans, calls, replay,
                   reply, trip, bulk>>

GenerateReceiveAny ==
    \E g \in GenIds, input \in GenerateInputs : GenerateReceive(g, input)
GenerateStoreAny == \E g \in GenIds : GenerateStore(g)

\* the row of a SELECT * as the component object of the response
ComponentOfFullRow(row) ==
    IF "component_type" \in DOMAIN row
    THEN [componentId |-> row.component_id, qrCode |-> row.qr_code,
          componentType |-> row.component_type,
          manufacturer |-> row.manufacturer, batchNumber |-> row.batch_number,
          status |-> row.status, scanCount |-> row.scan_count,
          lastScanned |-> row.last_scanned]
    ELSE ComponentOfRow(row)

\* generateMockComponent draws the type, the manufacturer and the scanCount
\* with Math.random(): the first of its five manufacturers and the two
\* extreme counts are drawn here
MockManufacturers == {"KMRL Industries"}
MockScanCounts == {0, 9}

generateMockComponent(qrCode, componentType, manufacturer, scanCount, t) ==
    [componentId |-> Str(generateComponentId(componentType, Timestamp(t))),
     qrCode |-> qrCode,
     componentType |-> Str(componentType),
     manufacturer |-> manufacturer,
     batchNumber |-> Str(<<"B", "A", "T", "C", "H", "_">> \o Timestamp(t)),
     status |-> "Active", scanCount |-> scanCount, lastScanned |-> t]

\* the response status of a decode whose qr_code was not found: the handler
\* synthesizes a component and answers 200 (DecodeStatusNotFound: a handler
\* that answers 404)
DecodeStatusNotFound(found) == IF found THEN 200 ELSE 404
DecodeStatus(found) == 200

\* the stored component with exactly this qr_code, in the store that serves
DecodeLookup(qrCode) ==
    IF db
    THEN { ComponentOfFullRow(r) : r \in { x \in dbComponents : x.qr_code = qrCode } }
    ELSE IF memInit /\ qrCode \in DOMAIN memComponents
         THEN {memComponents[qrCode]}
         ELSE {}

\* GET /api/qr/:qrCode/decode
Decode(qrCode) ==
    /\ boot = "running"
    /\ IF db /\ ~dbUp
       THEN /\ reply' = [op |-> "decode", arg |-> qrCode, status |-> 500,
                         components |-> {}]
            /\ UNCHANGED <<memComponents, memOrder>>
       ELSE LET found == DecodeLookup(qrCode) IN
            IF found # {}
            THEN /\ reply' = [op |-> "decode", arg |-> qrCode,
                              status |-> DecodeStatus(TRUE), components |-> found]
                 /\ UNCHANGED <<memComponents, memOrder>>
            ELSE \E ct \in ComponentTypes, m \in MockManufacturers,
                    n \in MockScanCounts :
                    LET component == generateMockComponent(qrCode, ct, m, n, now)
                    IN /\ reply' = [op |-> "decode", arg |-> qrCode,
                                    status |-> DecodeStatus(FALSE),
                                    components |-> {component}]
                       /\ IF memInit
                          THEN /\ memComponents' = MapSet(memComponents, qrCode,
                                                          component)
                               /\ memOrder' = MapSetOrder(memOrder, memComponents,
                                                          qrCode)
                          ELSE UNCHANGED <<memComponents, memOrder>>
    /\ UNCHANGED <<boot, sideVars, db, dbUp, now, memInit, memScanHistory, dbComponents,
                   dbScanHistory, dbQualityReports, dbAuditLog, rowLock, scans,
                   calls, replay, gens, trip, bulk>>

\* for (const [qrCode, comp] of components.entries()): the first component,
\* in insertion order, with this componentId
FirstWithId(order, comps, id) ==
    LET hits == { i \in 1..Len(order) : comps[order[i]].componentId = id }
    IN IF hits = {} THEN {}
       ELSE {comps[order[CHOOSE i \in hits : \A j \in hits : i <= j]]}

FetchLookup(id) ==
    IF db
    THEN { ComponentOfFullRow(r) : r \in { x \in dbComponents : x.component_id = id } }
    ELSE IF memInit THEN FirstWithId(memOrder, memComponents, id) ELSE {}

\* GET /api/components/:id
Fetch(id) ==
    /\ boot = "running"
    /\ IF db /\ ~dbUp
       THEN reply' = [op |-> "fetch", arg |-> id, status |-> 500,
                      components |-> {}]
       ELSE reply' = [op |-> "fetch", arg |-> id,
                      status |-> IF FetchLookup(id) = {} THEN 404 ELSE 200,
                      components |-> FetchLookup(id)]
    /\ UNCHANGED <<boot, sideVars, db, dbUp, now, storeVars, scans, calls, replay,
                   memOrder, gens, trip, bulk>>

\* the qr_codes and component ids the generate requests have returned
GeneratedQrs == { gens[g].qrCode : g \in { h \in GenIds :
                      gens[h].pc = "done" /\ gens[h].status = 200 } }
GeneratedIds == { gens[g].componentId : g \in { h \in GenIds :
                      gens[h].pc = "done" /\ gens[h].status = 200 } }

DecodeAny == \E q \in {Qr1, QrUnknown} \cup GeneratedQrs : Decode(q)
FetchAny == \E id \in {Id1, "NON_EXISTENT_ID"} \cup GeneratedIds : Fetch(id)

\* String(i) of a loop index
RECURSIVE Decimal(_)
Decimal(i) ==
    IF i < 10 THEN <<Base36Digits[i + 1]>>
    ELSE Decimal(i \div 10) \o <<Base36Digits[(i % 10) + 1]>>

\* component_type === 'random' ? componentTypes[i % componentTypes.length]
\*                             : component_type
BulkRandom == <<"r", "a", "n", "d", "o", "m">>
BulkTypeList == << <<"E", "R", "C">>, <<"R", "P", "D">>, <<"L", "N", "R">> >>
SelectedType(component_type, i) ==
    IF component_type = BulkRandom
    THEN BulkTypeList[(i % Len(BulkTypeList)) + 1]
    ELSE component_type

\* the component of iteration i of the bulk loop, built at time t
BulkComponent(i, component_type, manufacturer, t) ==
    LET timestamp == Timestamp(t) \o Decimal(i)
        selectedType == SelectedType(component_type, i)
    IN [componentId |-> Str(generateComponentId(selectedType, timestamp)),
        qrCode |-> Str(generateComponentQRCode(selectedType, timestamp,
                          manufacturer, <<"B", "U", "L", "K">> \o Decimal(i))),
        componentType |-> Str(selectedType),
        manufacturer |-> Str(manufacturer),
        batchNumber |-> Str(<<"B", "U", "L", "K", "_", "B", "A", "T", "C", "H", "_">>
                            \o Decimal(i + 1)),
        status |-> "Active", scanCount |-> 0, lastScanned |-> NoTime]

\* the whole loop on the in-memory store (it has no await there)
RECURSIVE BulkSetAll(_, _, _, _, _, _, _)
BulkSetAll(comps, order, i, count, component_type, manufacturer, t) ==
    IF i >= count
    THEN [components |-> comps, order |-> order, generated |-> << >>]
    ELSE LET c == BulkComponent(i, component_type, manufacturer, t)
             rest == BulkSetAll(MapSet(comps, c.qrCode, c),
                                MapSetOrder(order, comps, c.qrCode),
                                i + 1, count, component_type, manufacturer, t)
         IN [rest EXCEPT !.generated = <<c>> \o @]

\* the counts, types and manufacturer a bulk request asks for
BulkCounts == {1, 2, 101}
BulkTypes == {<<"E", "R", "C">>, BulkRandom}
BulkManufacturers == {<<"K">>}

\* POST /api/qr/bulk-generate up to its first await
BulkReceive(count, component_type, manufacturer) ==
    /\ boot = "running"
    /\ bulk.pc = "idle"
    /\ IF count > 100
       THEN /\ bulk' = [bulk EXCEPT !.pc = "done", !.count = count,
                                    !.status = 400]
            /\ UNCHANGED <<memComponents, memOrder>>
       ELSE IF db
       THEN /\ bulk' = [bulk EXCEPT !.pc = "loop", !.count = count,
                            !.component_type = component_type,
                            !.manufacturer = manufacturer]
            /\ UNCHANGED <<memComponents, memOrder>>
       ELSE LET r == BulkSetAll(memComponents, memOrder, 0, count,
                                component_type, manufacturer, now)
            IN /\ bulk' = [bulk EXCEPT !.pc = "done", !.count = count,
                               !.i = count, !.component_type = component_type,
                               !.manufacturer = manufacturer,
                               !.components = r.generated, !.status = 200]
               /\ IF memInit
                  THEN /\ memComponents' = r.components
                       /\ memOrder' = r.order
                  ELSE UNCHANGED <<memComponents, memOrder>>
    /\ UNCHANGED <<boot, sideVars, db, dbUp, now, memInit, memScanHistory, dbComponents,
                   dbScanHistory, dbQualityReports, dbAuditLog, rowLock, scans,
                   calls, replay, gens, reply, trip>>

\* one iteration of the loop on the durable store: the INSERT, whose error
\* is logged and swallowed, and generatedComponents.push(component); the
\* response follows the last iteration
BulkInsert ==
    /\ bulk.pc = "loop"
    /\ LET c == BulkComponent(bulk.i, bulk.component_type, bulk.manufacturer, now)
           last == bulk.i + 1 >= bulk.count
       IN /\ IF dbUp /\ ~DuplicateEntry(dbComponents, RowOfComponent(c))
             THEN dbComponents' = dbComponents \cup {RowOfComponent(c)}
             ELSE UNCHANGED dbComponents
          /\ bulk' = [bulk EXCEPT !.i = @ + 1,
                          !.components = Append(@, c),
                          !.pc = IF last THEN "done" ELSE "loop",
                          !.status = IF last THEN 200 ELSE 0]
    /\ UNCHANGED <<boot, sideVars, db, dbUp, now, memInit, memComponents, memScanHistory,
                   dbScanHistory, dbQualityReports, dbAuditLog, rowLock, scans,
                   calls, replay, memOrder, gens, reply, trip>>

BulkReceiveAny ==
    \E count \in BulkCounts, ct \in BulkTypes, m \in BulkManufacturers :
        BulkReceive(count, ct, m)

\* POST /api/qr/scan run to completion on the store that serves
ScanServe(s, qr) ==
    /\ boot = "running"
    /\ NextIdleScan(s)
    /\ IF db
       THEN IF dbUp \/ ~ScanValidates(qr)
            THEN LET r == DurableScan(dbComponents, dbScanHistory, s, qr, now)
                 IN /\ dbComponents' = r.components
                    /\ dbScanHistory' = r.history
                    /\ scans' = [scans EXCEPT ![s] = [@ EXCEPT !.pc = "done",
                                     !.qrCode = qr, !.timestamp = now,
                                     !.status = r.status]]
                    /\ UNCHANGED <<memComponents, memScanHistory>>
            ELSE /\ scans' = [scans EXCEPT ![s] = [@ EXCEPT !.pc = "done",
                                  !.qrCode = qr, !.timestamp = now,
                                  !.status = 500]]
                 /\ UNCHANGED <<dbComponents, dbScanHistory, memComponents,
                                memScanHistory>>
       ELSE LET r == FallbackScan(memComponents, memScanHistory, s, qr, now)
            IN /\ scans' = [scans EXCEPT ![s] = [@ EXCEPT !.pc = "done",
                                !.qrCode = qr, !.timestamp = now,
                                !.status = r.status]]
               /\ IF memInit
                  THEN /\ memComponents' = r.components
                       /\ memScanHistory' = r.history
                  ELSE UNCHANGED <<memComponents, memScanHistory>>
               /\ UNCHANGED <<dbComponents, dbScanHistory>>
    /\ UNCHANGED <<boot, sideVars, db, dbUp, now, memInit, dbQualityReports, dbAuditLog,
                   rowLock, calls, replay, memOrder, reqVars>>

ScanServeAny ==
    \E s \in ScanIds, qr \in {Qr1, ""} \cup GeneratedQrs : ScanServe(s, qr)

\* the generate handler and the fetch that reads back what it stored
NextGenerate ==
    \/ initDatabase
    \/ Tick
    \/ DbOutage
    \/ DbRestore
    \/ GenerateReceiveAny
    \/ GenerateStoreAny
    \/ FetchAny

SpecGenerate == Init /\ [][NextGenerate]_vars

\* the two handlers that validate a request body (validation reads no clock)
NextValidate ==
    \/ initDatabase
    \/ GenerateReceiveAny
    \/ GenerateStoreAny
    \/ ScanServeAny

SpecValidate == Init /\ [][NextValidate]_vars

\* the decode handler over a store that generate requests fill, all within
\* one millisecond
NextDecode ==
    \/ initDatabase
    \/ DbOutage
    \/ DbRestore
    \/ GenerateReceiveAny
    \/ GenerateStoreAny
    \/ DecodeAny

SpecDecode == Init /\ [][NextDecode]_vars

\* the handlers that create components, and the scans that count on them
NextCatalog ==
    \/ initDatabase
    \/ Tick
    \/ GenerateReceiveAny
    \/ GenerateStoreAny
    \/ BulkReceiveAny
    \/ BulkInsert
    \/ ScanServeAny

SpecCatalog == Init /\ [][NextCatalog]_vars

\* ------------------------------------------------- claims on generation
\* the qr_codes stored before a step, in either store
StoredQrs ==
    (IF memInit THEN DOMAIN memComponents ELSE {})
        \cup { c.qr_code : c \in dbComponents }

\* generate request g gets its response in this step
GenerateAnswers(g) == gens[g].pc = "store" /\ gens'[g].pc = "done"

GenerateSucceeds(g) == GenerateAnswers(g) /\ gens'[g].status = 200

\* C11: the qr_code of every successful generate request differs from every
\* qr_code stored or returned before it, also for requests of one millisecond
\* with the same type, manufacturer and batch
C11_GeneratedQrIsNew ==
    [][ \A g \in GenIds :
          GenerateSucceeds(g) => gens[g].qrCode \notin StoredQrs \cup GeneratedQrs
      ]_vars

\* the new component of request g has the qr_code or the component_id of a
\* component of the store that serves
Conflicts(g) ==
    IF db
    THEN \E c \in dbComponents :
            c.qr_code = gens[g].qrCode \/ c.component_id = gens[g].componentId
    ELSE /\ memInit
         /\ \E q \in DOMAIN memComponents :
               q = gens[g].qrCode
                   \/ memComponents[q].componentId = gens[g].componentId

\* C13: a generate request whose qr_code or component_id is already in the
\* store is answered with a conflict error (409) and leaves the stored
\* components as they were, in both stores
C13_ConflictRejected ==
    [][ \A g \in GenIds :
          (GenerateAnswers(g) /\ Conflicts(g) /\ (db => dbUp))
          => /\ gens'[g].status = 409
             /\ dbComponents' = dbComponents
             /\ memComponents' = memComponents ]_vars

\* C15: a successful generate request adds exactly one component, Active,
\* never scanned, with the given type, manufacturer and batch, and changes
\* neither the scan ledger nor any other component
C15_GenerateFrame ==
    [][ \A g \in GenIds :
          GenerateSucceeds(g)
          => /\ memScanHistory' = memScanHistory
             /\ dbScanHistory' = dbScanHistory
             /\ IF db
                THEN /\ memComponents' = memComponents
                     /\ \E row \in dbComponents' \ dbComponents :
                           /\ dbComponents' = dbComponents \cup {row}
                           /\ row.qr_code = gens[g].qrCode
                           /\ row.status = "Active"
                           /\ row.scan_count = 0
                           /\ row.last_scanned = NoTime
                           /\ row.component_type = Str(gens[g].input.component_type)
                           /\ row.manufacturer = Str(gens[g].input.manufacturer)
                           /\ row.batch_number = Str(gens[g].input.batch_number)
                ELSE /\ dbComponents' = dbComponents
                     /\ gens[g].qrCode \notin DOMAIN memComponents
                     /\ DOMAIN memComponents' =
                            DOMAIN memComponents \cup {gens[g].qrCode}
                     /\ \A q \in DOMAIN memComponents :
                            memComponents'[q] = memComponents[q]
                     /\ LET c == memComponents'[gens[g].qrCode]
                        IN /\ c.status = "Active"
                           /\ c.scanCount = 0
                           /\ c.lastScanned = NoTime
                           /\ c.componentType = Str(gens[g].input.component_type)
                           /\ c.manufacturer = Str(gens[g].input.manufacturer)
                           /\ c.batchNumber = Str(gens[g].input.batch_number)
      ]_vars

\* the component ids stored in the store that serves
StoredIds ==
    IF db THEN { c.component_id : c \in dbComponents }
    ELSE IF memInit
         THEN { memComponents[q].componentId : q \in DOMAIN memComponents }
         ELSE {}

\* C16: a fetch by the componentId a successful generate returned gives that
\* component (same componentId, same qr_code); a fetch by an id no stored
\* component has gives 404 and changes nothing
C16_FetchAfterGenerate ==
    [][ (reply' # reply /\ reply'.op = "fetch" /\ reply'.status # 500)
        => /\ \A g \in GenIds :
                (gens[g].pc = "done" /\ gens[g].status = 200
                    /\ gens[g].componentId = reply'.arg)
                => /\ reply'.status = 200
                   /\ \E c \in reply'.components :
                         /\ c.componentId = gens[g].componentId
                         /\ c.qrCode = gens[g].qrCode
           /\ (reply'.arg \notin StoredIds
                => /\ reply'.status = 404
                   /\ reply'.components = {}
                   /\ storeVars' = storeVars
                   /\ memOrder' = memOrder) ]_vars

\* ------------------------------------------------- claims on validation
\* a generate body the contract calls invalid: a type outside the three, or
\* a manufacturer or batch_number that is missing or empty
InvalidGenerateBody(input) ==
    \/ input.component_type \notin
           {<<"E", "R", "C">>, <<"R", "P", "D">>, <<"L", "N", "R">>}
    \/ input.manufacturer = Missing \/ input.manufacturer = << >>
    \/ input.batch_number = Missing \/ input.batch_number = << >>

StoresUnchanged == storeVars' = storeVars /\ memOrder' = memOrder

\* C14: a generate request with an invalid body and a scan request with an
\* empty qrCode are answered 400 at once and leave both stores unchanged: no
\* component is created, no ScanEvent appended, no scan_count changed
C14_InvalidRejected ==
    [][ /\ \A g \in GenIds :
              (gens[g].pc = "idle" /\ gens'[g].pc # "idle"
                  /\ InvalidGenerateBody(gens'[g].input))
              => /\ gens'[g].pc = "done"
                 /\ gens'[g].status = 400
                 /\ StoresUnchanged
        /\ \A s \in ScanIds :
              (scans[s].pc = "idle" /\ scans'[s].pc # "idle"
                  /\ scans'[s].qrCode = "")
              => /\ scans'[s].pc = "done"
                 /\ scans'[s].status = 400
                 /\ StoresUnchanged ]_vars

\* a generate request without batch_number and a scan request with an empty
\* qrCode have both been answered 400, after a valid generate was stored
C14_Witness ==
    /\ \E g \in GenIds :
          /\ gens[g].pc = "done"
          /\ gens[g].status = 400
          /\ gens[g].input.batch_number = Missing
    /\ \E g \in GenIds : gens[g].pc = "done" /\ gens[g].status = 200
    /\ \E s \in ScanIds :
          scans[s].pc = "done" /\ scans[s].qrCode = "" /\ scans[s].status = 400

\* --------------------------------------------- claims on the catalogue
\* C17: the scan_count of a stored component is never negative and never goes
\* down, in either store, under generate, bulk-generate and scan requests
C17_ScanCountMonotone ==
    [][ /\ \A q \in DOMAIN memComponents \cap DOMAIN memComponents' :
              memComponents'[q].scanCount >= memComponents[q].scanCount
        /\ \A c \in dbComponents : \A d \in dbComponents' :
              c.component_id = d.component_id => d.scan_count >= c.scan_count
        /\ \A q \in DOMAIN memComponents' : memComponents'[q].scanCount >= 0
        /\ \A d \in dbComponents' : d.scan_count >= 0 ]_vars

\* C18: no two stored components share a component_id, and the component_id
\* stored under a qr_code never changes, in either store; also for components
\* of one millisecond and for placeholders created on decode
C18_ComponentIdUnique ==
    [][ /\ \A q1 \in DOMAIN memComponents' : \A q2 \in DOMAIN memComponents' :
              q1 # q2 => memComponents'[q1].componentId # memComponents'[q2].componentId
        /\ \A c \in dbComponents' : \A d \in dbComponents' :
              c # d => c.component_id # d.component_id
        /\ \A q \in DOMAIN memComponents \cap DOMAIN memComponents' :
              memComponents'[q].componentId = memComponents[q].componentId
        /\ \A c \in dbComponents : \A d \in dbComponents' :
              c.qr_code = d.qr_code => c.component_id = d.component_id ]_vars

\* the components stored under exactly this qr_code in the store that serves
StoredByQr(q) ==
    IF db
    THEN { ComponentOfFullRow(r) : r \in { x \in dbComponents : x.qr_code = q } }
    ELSE IF memInit /\ q \in DOMAIN memComponents THEN {memComponents[q]} ELSE {}

\* a decode request gets its response in this step
DecodeAnswers ==
    reply' # reply /\ reply'.op = "decode" /\ reply'.status # 500

LifecycleEdges ==
    { <<"Active", "Inactive">>, <<"Active", "Replaced">>, <<"Active", "Damaged">>,
      <<"Damaged", "Replaced">>, <<"Damaged", "Active">>,
      <<"Inactive", "Active">>, <<"Inactive", "Replaced">> }

\* C19: every change of a component's status, by UpdateComponentLifecycle or
\* by a quality report, follows an edge of the lifecycle state machine
C19_StatusFollowsEdges ==
    [][ \A c \in dbComponents : \A d \in dbComponents' :
          (c.component_id = d.component_id /\ c.status # d.status)
          => <<c.status, d.status>> \in LifecycleEdges ]_vars

\* ------------------------------------------------- GET /api/components
\* component_type and manufacturer of the seeded components, which the rows
\* and objects above leave out
SeedComponentType == [id \in {Id1, Id2} |-> IF id = Id1 THEN "ERC" ELSE "RPD"]

TypeOfRow(row) ==
    IF "component_type" \in DOMAIN row THEN row.component_type
    ELSE SeedComponentType[row.component_id]

TypeOfComponent(c) ==
    IF "componentType" \in DOMAIN c THEN c.componentType
    ELSE SeedComponentType[c.componentId]

\* const { ..., status = 'Active', ... } = req.query: the default replaces a
\* parameter the query string does not have
StatusOrDefault(status) == IF status = NULL THEN "Active" ELSE status

\* `if (component_type)`, `if (status)`: a missing or empty parameter adds
\* no condition to the WHERE clause
Given(v) == v \notin {NULL, ""}

\* WHERE 1=1 [AND component_type = ?] [AND status = ?]
WhereClause(row, component_type, status) ==
    /\ Given(component_type) => TypeOfRow(row) = component_type
    /\ Given(StatusOrDefault(status)) => row.status = StatusOrDefault(status)

\* (parseInt(page) - 1) * parseInt(limit)
Offset(page, limit) == (page - 1) * limit

Least(a, b) == IF a <= b THEN a ELSE b

\* the number of rows LIMIT ? OFFSET ? leaves of n rows
PageSize(n, page, limit) ==
    IF n <= Offset(page, limit) THEN 0 ELSE Least(limit, n - Offset(page, limit))

\* Array.from(components.values()).slice(0, parseInt(limit))
MemSlice(order, comps, limit) ==
    { comps[order[i]] : i \in 1..Least(limit, Len(order)) }

\* the query strings drawn: component_type and status absent, empty or
\* given, the first two pages, and a limit of 1, 2 or the default 50 (the
\* manufacturer and search parameters are absent in every query drawn)
ListTypes == {NULL, "ERC"}
ListStatuses == {NULL, "", "Damaged"}
ListPages == {1, 2}
ListLimits == {1, 2, 50}

\* GET /api/components up to its first await: the COUNT(*) on the durable
\* store, the whole branch on the in-memory store
ListReceive(component_type, status, page, limit) ==
    /\ boot = "running"
    /\ list.pc \in {"idle", "done"}
    /\ LET q == [IdleList EXCEPT !.component_type = component_type,
                     !.status = status, !.page = page, !.limit = limit]
       IN IF db
          THEN IF dbUp
               THEN list' = [q EXCEPT !.pc = "select",
                       !.totalCount = Cardinality({ r \in dbComponents :
                           WhereClause(r, component_type, status) })]
               ELSE list' = [q EXCEPT !.pc = "done", !.code = 500]
          ELSE IF memInit
               THEN list' = [q EXCEPT !.pc = "done", !.code = 200,
                       !.components = MemSlice(memOrder, memComponents, limit),
                       !.totalCount = Cardinality(
                           MemSlice(memOrder, memComponents, limit))]
               ELSE list' = [q EXCEPT !.pc = "done", !.code = 200]
    /\ UNCHANGED <<boot, db, dbUp, now, storeVars, scans, calls, replay,
                   memOrder, reqVars, dailyStats, provider>>

\* SELECT * FROM components WHERE ... ORDER BY created_at DESC LIMIT ? OFFSET ?
\* and the response.  created_at is not part of the rows: any page of the
\* right size is drawn from the rows that match.
ListSelect ==
    /\ list.pc = "select"
    /\ IF dbUp
       THEN LET rows == { r \in dbComponents :
                            WhereClause(r, list.component_type, list.status) }
                n == PageSize(Cardinality(rows), list.page, list.limit)
            IN \E pg \in { x \in SUBSET rows : Cardinality(x) = n } :
                 list' = [list EXCEPT !.pc = "done", !.code = 200,
                     !.components = { ComponentOfFullRow(r) : r \in pg }]
       ELSE list' = [list EXCEPT !.pc = "done", !.code = 500]
    /\ UNCHANGED <<boot, db, dbUp, now, storeVars, scans, calls, replay,
                   memOrder, reqVars, dailyStats, provider>>

ListReceiveAny ==
    \E ct \in ListTypes, st \in ListStatuses, pg \in ListPages,
       lim \in ListLimits : ListReceive(ct, st, pg, lim)

\* the list handler over a store that generate requests fill
NextList ==
    \/ initDatabase
    \/ DbOutage
    \/ DbRestore
    \/ GenerateReceiveAny
    \/ GenerateStoreAny
    \/ ListReceiveAny
    \/ ListSelect

SpecList == Init /\ [][NextList]_vars

\* the stored components that match the filters of the list request, in the
\* store that serves
ListMatching ==
    IF db
    THEN { ComponentOfFullRow(r) : r \in { x \in dbComponents :
             WhereClause(x, list'.component_type, list'.status) } }
    ELSE IF memInit
         THEN { memComponents[k] : k \in { x \in DOMAIN memComponents :
                  /\ Given(list'.component_type)
                       => TypeOfComponent(memComponents[x]) = list'.component_type
                  /\ Given(StatusOrDefault(list'.status))
                       => memComponents[x].status = StatusOrDefault(list'.status) } }
         ELSE {}

\* C21: a list response holds at most `limit` components, each a stored
\* component that matches the filters, and its totalCount is the number of
\* all stored components that match the filters, on both stores
C21_ListPageAndTotal ==
    [][ (list.pc # "done" /\ list'.pc = "done" /\ list'.code = 200)
        => /\ Cardinality(list'.components) <= list'.limit
           /\ list'.components \subseteq ListMatching
           /\ list'.totalCount = Cardinality(ListMatching) ]_vars

\* ------------------------------------------ POST /api/qr/bulk-generate
\* one bulk request, with the clock and the database server moving under it
NextBulk ==
    \/ initDatabase
    \/ Tick
    \/ DbOutage
    \/ DbRestore
    \/ BulkReceiveAny
    \/ BulkInsert

SpecBulk == Init /\ [][NextBulk]_vars

\* component c is in the store that serves
Stored(c) ==
    IF db
    THEN \E r \in dbComponents :
            r.component_id = c.componentId /\ r.qr_code = c.qrCode
    ELSE /\ memInit
         /\ c.qrCode \in DOMAIN memComponents
         /\ memComponents[c.qrCode] = c

\* C22: a bulk request that is answered 200 returns exactly `count`
\* components, each of them stored; a request answered 400 (count above
\* 100) has created no component
C22_BulkReturnsStored ==
    /\ (bulk.pc = "done" /\ bulk.status = 200)
          => /\ Len(bulk.components) = bulk.count
             /\ \A i \in 1..Len(bulk.components) : Stored(bulk.components[i])
    /\ (bulk.pc = "done" /\ bulk.status = 400)
          => /\ bulk.count > 100
             /\ dbComponents = SeedDbComponents
             /\ memInit => DOMAIN memComponents = {Qr1, Qr2}

\* ------------------------------------------- UpdateComponentScanCount
\* INSERT INTO daily_stats (stat_date, total_scans, ...) VALUES (d, 1, ...)
\* ON DUPLICATE KEY UPDATE total_scans = total_scans + 1 (stat_date is the
\* PRIMARY KEY)
InsertDailyStats(stats, d) ==
    [x \in DOMAIN stats \cup {d} |->
        IF x = d THEN (IF d \in DOMAIN stats THEN stats[d] + 1 ELSE 1)
        ELSE stats[x]]

\* the procedure up to and including UPDATE components SET scan_count =
\* scan_count + 1, last_scanned = CURRENT_TIMESTAMP: the statement waits for
\* the row's write lock
CountUpdate(c, cid) ==
    /\ NextIdleCall(c)
    /\ IF dbUp
       THEN /\ LockFree(cid, c)
            /\ rowLock' = Lock(rowLock, cid, c)
            /\ calls' = [calls EXCEPT ![c] = [@ EXCEPT
                     !.proc = "UpdateComponentScanCount", !.pc = "stats",
                     !.component_id = cid, !.timestamp = now]]
       ELSE /\ calls' = [calls EXCEPT ![c] = [IdleCall EXCEPT
                     !.proc = "UpdateComponentScanCount",
                     !.pc = "done", !.outcome = "error"]]
            /\ UNCHANGED rowLock
    /\ UNCHANGED <<boot, db, dbUp, now, memInit, memComponents, memScanHistory,
                   dbComponents, dbScanHistory, dbQualityReports, dbAuditLog,
                   scans, replay, memOrder, reqVars, sideVars>>

\* INSERT INTO daily_stats ... VALUES (CURDATE(), 1, 1) ON DUPLICATE KEY UPDATE
CountStats(c) ==
    /\ calls[c].proc = "UpdateComponentScanCount"
    /\ calls[c].pc = "stats"
    /\ IF dbUp
       THEN /\ calls' = [calls EXCEPT ![c] = [@ EXCEPT !.pc = "commit",
                                              !.stat_date = CurDate(now)]]
            /\ UNCHANGED rowLock
       ELSE CallRollback(c)
    /\ UNCHANGED <<boot, db, dbUp, now, memInit, memComponents, memScanHistory,
                   dbComponents, dbScanHistory, dbQualityReports, dbAuditLog,
                   scans, replay, memOrder, reqVars, sideVars>>

CountCommit(c) ==
    /\ calls[c].proc = "UpdateComponentScanCount"
    /\ calls[c].pc = "commit"
    /\ IF dbUp
       THEN /\ dbComponents' = updateScanCount(dbComponents,
                                  calls[c].component_id, calls[c].timestamp)
            /\ dailyStats' = InsertDailyStats(dailyStats, calls[c].stat_date)
            /\ rowLock' = Unlock(rowLock, c)
            /\ CallReturn(c)
       ELSE /\ CallRollback(c)
            /\ UNCHANGED <<dbComponents, dailyStats>>
    /\ UNCHANGED <<boot, db, dbUp, now, memInit, memComponents, memScanHistory,
                   dbScanHistory, dbQualityReports, dbAuditLog, scans, replay,
                   memOrder, reqVars, list, provider>>

\* scans and Critical quality reports of one component, all within one
\* millisecond: the scan of the handler and the scan of the procedure
ContendedScanAny == \E s \in ScanIds : ScanReceive(s, Qr1)
ContendedReportAny ==
    \E c \in CallIds : ReportInsert(c, Id1, "Damage", "Critical")
CountUpdateAny == \E c \in CallIds : CountUpdate(c, Id1)
CountStatsAny == \E c \in CallIds : CountStats(c)
CountCommitAny == \E c \in CallIds : CountCommit(c)

NextContend ==
    \/ initDatabase
    \/ DbOutage
    \/ DbRestore
    \/ ContendedScanAny
    \/ ScanSelectAny
    \/ ScanUpdateAny
    \/ ScanInsertAny
    \/ ContendedReportAny
    \/ ReportUpdateAny
    \/ ReportCommitAny
    \/ CountUpdateAny
    \/ CountStatsAny
    \/ CountCommitAny

SpecContend == Init /\ [][NextContend]_vars

\* the row of component cid after the step
RowAfter(cid) == CHOOSE d \in dbComponents' : d.component_id = cid

\* the step is the UPDATE of scan request s
ScanWrites(s) == scans[s].pc = "update" /\ scans'[s].pc = "insert"

\* the step commits call c of procedure proc
Commits(c, proc) ==
    /\ calls[c].proc = proc
    /\ calls[c].pc = "commit"
    /\ calls'[c].outcome = "ok"

\* C23: with scans and Critical reports of one component interleaved in
\* every way, the scan's write raises scan_count by one, stamps last_scanned
\* and keeps the status, the Critical report's write sets Damaged and keeps
\* scan_count and last_scanned, and no later step takes either effect back
C23_ScanAndReportBothKept ==
    [][ /\ \A c \in dbComponents :
            LET d == RowAfter(c.component_id) IN
            /\ d.scan_count >= c.scan_count
            /\ d.last_scanned >= c.last_scanned
            /\ c.status = "Damaged" => d.status = "Damaged"
            /\ d.scan_count # c.scan_count
                 => d.scan_count = c.scan_count + 1 /\ d.status = c.status
            /\ d.status # c.status
                 => /\ d.status = "Damaged"
                    /\ d.scan_count = c.scan_count
                    /\ d.last_scanned = c.last_scanned
        /\ \A s \in ScanIds : ScanWrites(s) =>
            \E c \in dbComponents :
               /\ c.component_id = scans[s].componentId
               /\ RowAfter(c.component_id).scan_count = c.scan_count + 1
               /\ RowAfter(c.component_id).last_scanned = now
        /\ \A k \in CallIds :
            /\ Commits(k, "UpdateComponentScanCount") =>
                 \E c \in dbComponents :
                    /\ c.component_id = calls[k].component_id
                    /\ RowAfter(c.component_id).scan_count = c.scan_count + 1
                    /\ RowAfter(c.component_id).last_scanned = calls[k].timestamp
            /\ (Commits(k, "GenerateQualityReport")
                    /\ calls[k].severity = "Critical") =>
                 RowAfter(calls[k].component_id).status = "Damaged"
      ]_vars

\* a Critical report of a component was committed while a scan of it was
\* between its UPDATE and its INSERT: the row is Damaged and counts the scan
C23_Witness ==
    /\ db
    /\ \E s \in ScanIds : scans[s].pc = "insert" /\ scans[s].componentId = Id1
    /\ \E r \in dbQualityReports :
          r.component_id = Id1 /\ r.severity = "Critical"
    /\ StatusOf(dbComponents, Id1) = "Damaged"
    /\ DbRow(Qr1).scan_count > SeedDbRow(Qr1).scan_count
    /\ DbRow(Qr1).last_scanned >= 1

\* call c of procedure proc ends in this step with the procedure's error
Fails(c, proc) ==
    /\ calls[c].pc # "done"
    /\ calls'[c].pc = "done"
    /\ calls'[c].proc = proc
    /\ calls'[c].outcome = "error"

\* the Critical reports of component cid that this step adds
NewCriticalReports(cid) ==
    { r \in dbQualityReports' \ dbQualityReports :
        r.component_id = cid /\ r.severity = "Critical" }

\* C24: the row of a Critical report and the status Damaged it forces are
\* written by one step or not at all: a step that adds the row leaves the
\* component Damaged, a report call that changes the status adds its row,
\* and a report call that fails leaves no row and no status change
C24_CriticalReportAllOrNothing ==
    [][ /\ \A cid \in CallComponentIds :
              NewCriticalReports(cid) # {}
              => StatusOf(dbComponents', cid) = "Damaged"
        /\ \A c \in CallIds :
              /\ ( /\ Commits(c, "GenerateQualityReport")
                   /\ StatusOf(dbComponents', calls[c].component_id)
                        # StatusOf(dbComponents, calls[c].component_id) )
                 => \E r \in NewCriticalReports(calls[c].component_id) :
                       r.report_id = c
              /\ Fails(c, "GenerateQualityReport")
                 => /\ dbComponents' = dbComponents
                    /\ \A r \in dbQualityReports' : r.report_id # c
      ]_vars

\* the server stops answering after the forced UPDATE of a Critical report
\* and before its COMMIT: the component is not Damaged and no row of the
\* call is stored
C24_Witness ==
    \E c \in CallIds :
        /\ calls[c].proc = "GenerateQualityReport"
        /\ calls[c].severity = "Critical"
        /\ calls[c].pc = "commit"
        /\ ~dbUp
        /\ StatusOf(dbComponents, calls[c].component_id) # "Damaged"
        /\ \A r \in dbQualityReports : r.report_id # c

\* the audit entries this step appends
NewAuditRows == dbAuditLog' \ dbAuditLog

\* C25: an administrative status update that commits sets the status and
\* appends exactly one audit entry with the status the component had before
\* the update, the new status and the actor, in one step; a failing update
\* leaves neither, and no audit entry appears without such a commit
C25_StatusAndAuditTogether ==
    [][ /\ \A c \in CallIds :
              /\ Commits(c, "UpdateComponentLifecycle")
                 => /\ StatusOf(dbComponents', calls[c].component_id)
                         = calls[c].new_status
                    /\ Cardinality(NewAuditRows) = 1
                    /\ \A a \in NewAuditRows :
                          /\ a.record_id = calls[c].component_id
                          /\ a.old_values
                               = StatusOf(dbComponents, calls[c].component_id)
                          /\ a.new_values = calls[c].new_status
                          /\ a.changed_by = "admin"
              /\ Fails(c, "UpdateComponentLifecycle")
                 => dbComponents' = dbComponents /\ NewAuditRows = {}
        /\ NewAuditRows # {}
              => \E c \in CallIds : Commits(c, "UpdateComponentLifecycle")
      ]_vars

\* ------------------------------------------------ claims on synthesis
\* the component ids the generate handler issues at the clock values reached
IssuedIds ==
    { Str(generateComponentId(ct, Timestamp(t))) :
        ct \in ComponentTypes, t \in 0..MaxClock }

\* component c has the fields of a generated component, each with a value a
\* generated (and possibly scanned) component can have: nothing in it says
\* that it was synthesized
ReadsAsAuthoritative(c) ==
    /\ DOMAIN c = {"componentId", "qrCode", "componentType", "manufacturer",
                   "batchNumber", "status", "scanCount", "lastScanned"}
    /\ c.componentId \in IssuedIds
    /\ c.componentType \in { Str(ct) : ct \in ComponentTypes }
    /\ c.status \in Statuses
    /\ c.scanCount \in Nat
    /\ c.lastScanned \in 0..MaxClock

\* C26: a component that a decode synthesizes for a qr_code that is not
\* stored can be told apart from an authoritative component, in the response
\* and in the store that keeps it
C26_SynthesisMarked ==
    [][ (DecodeAnswers /\ StoredByQr(reply'.arg) = {})
        => /\ \A c \in reply'.components : ~ReadsAsAuthoritative(c)
           /\ (memInit /\ reply'.arg \in DOMAIN memComponents')
                 => ~ReadsAsAuthoritative(memComponents'[reply'.arg]) ]_vars

\* ------------------------------------------------ claims on store errors
\* the handler awaits each of its statements once: a step taken from one of
\* its statements is the first attempt of that statement
FirstAttempt(s) == scans[s].pc \in {"select", "update", "insert"}

\* C27: a scan whose statement is rejected by the store is retried once
\* before the error reaches the caller: no first attempt of a statement
\* ends the request with 500
C27_ErrorSurfacesAfterRetry ==
    [][ \A s \in ScanIds :
          (Finishing(s) /\ scans'[s].status = 500) => ~FirstAttempt(s) ]_vars

\* ------------------------------------------------ the daily aggregate
\* the two ways a scan is recorded in the durable store, across a change of
\* day
NextDaily ==
    \/ initDatabase
    \/ Tick
    \/ ContendedScanAny
    \/ ScanSelectAny
    \/ ScanUpdateAny
    \/ ScanInsertAny
    \/ CountUpdateAny
    \/ CountStatsAny
    \/ CountCommitAny

SpecDaily == Init /\ [][NextDaily]_vars

\* the ScanEvents recorded on day d
ScanEventsOn(d) == { e \in dbScanHistory : CurDate(e.scan_timestamp) = d }

\* C28: whenever no scan is between its statements, total_scans of the
\* current day's daily_stats row is the number of ScanEvents recorded that
\* day (stat_date is the key of the table: one row per day)
C28_DailyTotalFollowsLedger ==
    ( /\ \A s \in ScanIds : scans[s].pc \in {"idle", "done"}
      /\ \A c \in CallIds : calls[c].pc \in {"idle", "done"} )
    => /\ CurDate(now) \in DOMAIN dailyStats
            => dailyStats[CurDate(now)] = Cardinality(ScanEventsOn(CurDate(now)))
       /\ ScanEventsOn(CurDate(now)) # {} => CurDate(now) \in DOMAIN dailyStats

\* ------------------------------------------------ claims on report frames
\* C29: a step that stores a quality report of severity Low, Medium or High
\* leaves the row of the referenced component as it was, and a step that
\* stores a report of any severity leaves the rows of all other components
\* as they were
C29_ReportFrame ==
    [][ \A r \in dbQualityReports' \ dbQualityReports :
          \A c \in dbComponents :
             (c.component_id # r.component_id
                  \/ r.severity \in {"Low", "Medium", "High"})
             => RowAfter(c.component_id) = c ]_vars

\* a High report of one component and a Critical report of the other are
\* stored: the first component is still Active with its seeded counters,
\* the second is Damaged
C29_Witness ==
    \E r \in dbQualityReports : \E q \in dbQualityReports :
        /\ r.severity = "High"
        /\ q.severity = "Critical"
        /\ q.component_id # r.component_id
        /\ \E c \in SeedDbComponents :
              c.component_id = r.component_id /\ c \in dbComponents
        /\ StatusOf(dbComponents, q.component_id) = "Damaged"

\* ------------------------------------- the mobile app: ScanProvider
\* Dart runs one event at a time: the code between two awaits is one step.
\* The server, the connectivity plugin, the vibration plugin and the
\* device's preferences answer in any of the ways their callers allow for.
NextIdleTap(c) ==
    /\ provider.calls[c].pc = "idle"
    /\ \A d \in TapIds : d < c => provider.calls[d].pc # "idle"

TapQrs == {Qr1, QrUnknown}

\* call c moves to pc and branch
TapAt(c, pc, branch) ==
    [provider.calls EXCEPT ![c] = [@ EXCEPT !.pc = pc, !.branch = branch]]

\* finally { _isProcessing = false; notifyListeners(); } after return
TapReturn(c, branch, result) ==
    [provider.calls EXCEPT ![c] = [@ EXCEPT !.pc = "done", !.branch = branch,
                                            !.result = result]]

\* processScan up to `await _apiService.isConnected()`
\* (processScanUnguarded: without `if (_isProcessing) return null;`)
processScanUnguarded(c, qrCode) ==
    /\ NextIdleTap(c)
    /\ provider' = [provider EXCEPT !.isProcessing = TRUE,
                       !.errorMessage = NULL,
                       !.calls = [provider.calls EXCEPT ![c] = [@ EXCEPT
                           !.pc = "connect", !.qrCode = qrCode,
                           !.branch = "try"]]]
    /\ UNCHANGED <<boot, db, dbUp, now, storeVars, scans, calls, replay,
                   memOrder, reqVars, list, dailyStats>>
processScan(c, qrCode) ==
    /\ NextIdleTap(c)
    /\ IF provider.isProcessing
       THEN provider' = [provider EXCEPT
                !.calls = [provider.calls EXCEPT ![c] = [@ EXCEPT
                    !.pc = "done", !.qrCode = qrCode, !.branch = "busy",
                    !.result = "null"]]]
       ELSE provider' = [provider EXCEPT !.isProcessing = TRUE,
                !.errorMessage = NULL,
                !.calls = [provider.calls EXCEPT ![c] = [@ EXCEPT
                    !.pc = "connect", !.qrCode = qrCode, !.branch = "try"]]]
    /\ UNCHANGED <<boot, db, dbUp, now, storeVars, scans, calls, replay,
                   memOrder, reqVars, list, dailyStats>>

\* isConnected() has answered: true, false, or the plugin has thrown
processScanConnected(c) ==
    /\ provider.calls[c].pc = "connect"
    /\ \E answer \in {"true", "false", "throws"} :
         provider' = [provider EXCEPT !.calls =
            CASE answer = "true" -> TapAt(c, "decode", "try")
              [] answer = "false" -> TapAt(c, "save", "try")
              [] OTHER -> TapAt(c, "saveError", "catch")]
    /\ UNCHANGED <<boot, db, dbUp, now, storeVars, scans, calls, replay,
                   memOrder, reqVars, list, dailyStats>>

\* decodeQR(qrCode) has answered: a component, null (another status code or
\* a DioException, which decodeQR catches), or fromJson has thrown
processScanDecoded(c) ==
    /\ provider.calls[c].pc = "decode"
    /\ \E answer \in {"component", "null", "throws"} :
         provider' = [provider EXCEPT !.requests = @ + 1, !.calls =
            CASE answer = "component" ->
                     [TapAt(c, "record", "try") EXCEPT ![c].component = "server"]
              [] answer = "null" -> TapAt(c, "save", "try")
              [] OTHER -> TapAt(c, "saveError", "catch")]
    /\ UNCHANGED <<boot, db, dbUp, now, storeVars, scans, calls, replay,
                   memOrder, reqVars, list, dailyStats>>

\* recordScan(...) has answered (its result is not read) or has thrown
processScanRecorded(c) ==
    /\ provider.calls[c].pc = "record"
    /\ \E answer \in {"returns", "throws"} :
         provider' = [provider EXCEPT !.requests = @ + 1, !.calls =
            IF answer = "returns" THEN TapAt(c, "save", "try")
            ELSE TapAt(c, "saveError", "catch")]
    /\ UNCHANGED <<boot, db, dbUp, now, storeVars, scans, calls, replay,
                   memOrder, reqVars, list, dailyStats>>

\* component ??= generateMockComponent(qrCode), and saveScanToHistory(scan)
\* has answered: the scan is saved, or the save has failed and returned false
processScanSaved(c) ==
    /\ provider.calls[c].pc = "save"
    /\ LET component == IF provider.calls[c].component = NULL THEN "mock"
                        ELSE provider.calls[c].component
       IN \E stored \in BOOLEAN :
            provider' = [provider EXCEPT
                !.saved = IF stored
                          THEN <<[qrCode |-> provider.calls[c].qrCode,
                                  componentId |-> component]>> \o @
                          ELSE @,
                !.calls = [TapAt(c, "load", "try") EXCEPT
                              ![c].component = component]]
    /\ UNCHANGED <<boot, db, dbUp, now, storeVars, scans, calls, replay,
                   memOrder, reqVars, list, dailyStats>>

\* loadScanHistory() has answered (it catches its own errors), and
\* _lastScannedComponent = component
processScanLoaded(c) ==
    /\ provider.calls[c].pc = "load"
    /\ \E loaded \in BOOLEAN :
         provider' = [provider EXCEPT
             !.scanHistory = IF loaded THEN provider.saved ELSE @,
             !.errorMessage = IF loaded THEN @ ELSE "Failed to load scan history",
             !.calls = TapAt(c, "vibrate", "try")]
    /\ UNCHANGED <<boot, db, dbUp, now, storeVars, scans, calls, replay,
                   memOrder, reqVars, list, dailyStats>>

\* Vibration.hasVibrator() has answered: `return component` and the finally
\* block, or the plugin has thrown
processScanVibrated(c) ==
    /\ provider.calls[c].pc = "vibrate"
    /\ \E answer \in {"returns", "throws"} :
         IF answer = "returns"
         THEN provider' = [provider EXCEPT !.isProcessing = FALSE,
                  !.calls = TapReturn(c, "try", provider.calls[c].component)]
         ELSE provider' = [provider EXCEPT
                  !.calls = TapAt(c, "saveError", "catch")]
    /\ UNCHANGED <<boot, db, dbUp, now, storeVars, scans, calls, replay,
                   memOrder, reqVars, list, dailyStats>>

\* catch (e): _errorMessage, and saveScanToHistory(errorScan) has answered
processScanErrorSaved(c) ==
    /\ provider.calls[c].pc = "saveError"
    /\ \E stored \in BOOLEAN :
         provider' = [provider EXCEPT
             !.errorMessage = "Failed to process scan",
             !.saved = IF stored
                       THEN <<[qrCode |-> provider.calls[c].qrCode,
                               componentId |-> "Unknown"]>> \o @
                       ELSE @,
             !.calls = TapAt(c, "loadError", "catch")]
    /\ UNCHANGED <<boot, db, dbUp, now, storeVars, scans, calls, replay,
                   memOrder, reqVars, list, dailyStats>>

\* loadScanHistory() of the catch block has answered: `return null` and the
\* finally block
processScanErrorLoaded(c) ==
    /\ provider.calls[c].pc = "loadError"
    /\ \E loaded \in BOOLEAN :
         provider' = [provider EXCEPT !.isProcessing = FALSE,
             !.scanHistory = IF loaded THEN provider.saved ELSE @,
             !.errorMessage = IF loaded THEN @ ELSE "Failed to load scan history",
             !.calls = TapReturn(c, "catch", "null")]
    /\ UNCHANGED <<boot, db, dbUp, now, storeVars, scans, calls, replay,
                   memOrder, reqVars, list, dailyStats>>

processScanAny == \E c \in TapIds, q \in TapQrs : processScan(c, q)
processScanConnectedAny == \E c \in TapIds : processScanConnected(c)
processScanDecodedAny == \E c \in TapIds : processScanDecoded(c)
processScanRecordedAny == \E c \in TapIds : processScanRecorded(c)
processScanSavedAny == \E c \in TapIds : processScanSaved(c)
processScanLoadedAny == \E c \in TapIds : processScanLoaded(c)
processScanVibratedAny == \E c \in TapIds : processScanVibrated(c)
processScanErrorSavedAny == \E c \in TapIds : processScanErrorSaved(c)
processScanErrorLoadedAny == \E c \in TapIds : processScanErrorLoaded(c)

NextProvider ==
    \/ processScanAny
    \/ processScanConnectedAny
    \/ processScanDecodedAny
    \/ processScanRecordedAny
    \/ processScanSavedAny
    \/ processScanLoadedAny
    \/ processScanVibratedAny
    \/ processScanErrorSavedAny
    \/ processScanErrorLoadedAny

SpecProvider == Init /\ [][NextProvider]_vars

\* the processScan calls that are past their entry and have not returned
\* (Running: before the step, RunningAfter: after it)
Running == { c \in TapIds : provider.calls[c].pc \notin {"idle", "done"} }
RunningAfter == { c \in TapIds : provider'.calls[c].pc \notin {"idle", "done"} }

\* C30: at most one processScan runs at a time and isProcessing is true
\* exactly while one runs; a call made while isProcessing is true returns
\* null at once, sends no request and saves nothing; a call made while it is
\* false is accepted; and the step in which the running call returns, by
\* `return component` or from the catch block, sets isProcessing to false
C30_OneProcessScanAtATime ==
    [][ /\ Cardinality(RunningAfter) <= 1
        /\ provider'.isProcessing <=> RunningAfter # {}
        /\ \A c \in TapIds :
              /\ ( /\ provider.calls[c].pc = "idle"
                   /\ provider'.calls[c].pc # "idle"
                   /\ provider.isProcessing )
                 => /\ provider'.calls[c].pc = "done"
                    /\ provider'.calls[c].result = "null"
                    /\ provider'.requests = provider.requests
                    /\ provider'.saved = provider.saved
              /\ ( /\ provider.calls[c].pc = "idle"
                   /\ provider'.calls[c].pc # "idle"
                   /\ ~provider.isProcessing )
                 => provider'.calls[c].pc = "connect"
              /\ (c \in Running /\ provider'.calls[c].pc = "done")
                 => ~provider'.isProcessing
      ]_vars

\* a call was turned away while another one ran, and that one has ended in
\* its catch block: isProcessing is false again
C30_Witness ==
    /\ ~provider.isProcessing
    /\ \E c \in TapIds : \E d \in TapIds :
          /\ provider.calls[c].pc = "done"
          /\ provider.calls[c].branch = "busy"
          /\ provider.calls[d].pc = "done"
          /\ provider.calls[d].branch = "catch"
====
